---- MODULE Spec2Model ----
(***************************************************************************)
(* Batch frame-extraction pipeline of rtsp_stream_extractor.               *)
(*                                                                         *)
(* Spec models one invocation of the batch run                             *)
(*   entry = "run"                   media_core/extraction/processing.rs   *)
(*   entry = "run_video_extraction"  media_core/src/process/video.rs       *)
(* as a state machine: the directory scan, the sequential loop or the      *)
(* rayon fan-out of one job per directory, the three strategies of a job   *)
(* with their staging directory, the mutex-guarded list temp_dirs_created  *)
(* and the final cleanup sweep.                                            *)
(*                                                                         *)
(* Paths are sequences of path components.  A staging directory name and   *)
(* an output file name are the sequence of the pieces their format!        *)
(* strings concatenate.  Thread 0 is the calling thread, threads           *)
(* 1..num_threads are the workers of the rayon pool.                       *)
(*                                                                         *)
(* SpecJob models the frame pipeline of one process_directory call that    *)
(* stages frames: the extraction of each video into the staging directory, *)
(* the listing of that directory and the ordering of the listed files      *)
(* before assembly.  File names are sequences of one-character strings.    *)
(*                                                                         *)
(* SpecDirect models one process_directory call that takes CASE 1, frame   *)
(* by frame: the captures, the writer, the frame loop and the output file. *)
(* SpecCmp applies the three sort closures to pairs of file names, and     *)
(* SpecSelect the branch on the two mode fields to their values.           *)
(* SpecOrder is SpecDirect with the video list handed over in any order.   *)
(* In SpecJob the staged job goes on to the concat list file and the       *)
(* ffmpeg concat run.                                                      *)
(*                                                                         *)
(* SpecParse applies the two frame-name parsers to stems, SpecStats the    *)
(* operations of ProcessingStats to a new value, and SpecSupervisor models *)
(* the restart loop of the live capture, process_stream_ffmpeg of          *)
(* media_core/src/lib.rs and src/main.rs.                                  *)
(*                                                                         *)
(* SpecRepeat is Spec entered in a process that may already have built     *)
(* the global thread pool, SpecProcessor applies Processor::new to a       *)
(* ProcessConfig, and SpecSession follows process_from_source over the     *)
(* entries of a directory, called repeatedly on one Processor.             *)
(***************************************************************************)
EXTENDS Integers, Sequences, FiniteSets, TLC

\* ------------------------------------------------------------------ bounds
MaxDirs == 2        \* longest configured input_directories list
MaxThreads == 2     \* largest configured num_threads
MaxVideos == 2      \* most video files in one directory (SpecJob)
MaxFrames == 2      \* largest frame count of a video (SpecJob)
MaxCalls == 4       \* most calls made on one ProcessingStats (SpecStats)
MaxFailureRun == 8  \* longest run of failures the supervisor is followed through

\* ------------------------------------------------------- the input universe
\* Candidate input directories: two share their final component.
AllPaths == { <<"a", "x">>, <<"b", "x">>, <<"a", "y">> }

MainThread == 0
NoPath == << >>

Range(s) == { s[i] : i \in DOMAIN s }

VARIABLES
    entry,              \* which of the two run functions is executing
    config,             \* the deserialized Config, read-only; the entries of
                        \* input_directories are drawn as the scan reads them
    runState,           \* position of the run function
    runResult,          \* "none" while running, then "Ok" or "Err"
    scanIdx,            \* index into config.input_directories of the scan loop
    video_files_by_dir, \* the HashMap, as the set of its keys
    jobs,               \* per map entry: the process_directory call made for it
    temp_dirs_created,  \* the Vec<PathBuf> behind the Mutex
    lockHolders,        \* threads inside a critical section of the Mutex
    snapshot,           \* per thread: the Vec as seen through its MutexGuard
    sweepIdx,           \* position of the cleanup loop in the Vec
    fsDirs,             \* staging directories that exist on disk
    staged_by,          \* per staging directory, the jobs whose frames it holds
    removedCount,       \* per path: remove_dir_all calls since it was last created
    pendingReg,         \* paths pushed and not since retained out by a job
    sweepRuns,          \* number of times the cleanup block was entered
    startCount,         \* per directory: calls of process_directory made for it
    \* --- one job's frame pipeline (SpecJob)
    jobPc,              \* position of the job: "extract", "list", "assembled", ...
    videoCount,         \* sorted_video_list.len()
    video_index,        \* index of the video the extraction loop is at
    staged,             \* files in the staging directory, each with the video
                        \* and source frame it was sampled from
    unread,             \* entries read_dir has still to yield
    image_files,        \* the entries collected so far, in sorted order
    ffmpeg_runs,        \* exit status of each ffmpeg process the job has spawned
    \* --- one DirectNative job (SpecDirect)
    direct,             \* the locals of CASE 1 and the state of its output file
    \* --- the pure functions, applied to drawn inputs (SpecCmp, SpecSelect)
    compared,           \* two file names and the Ordering each sort closure gave
    selected,           \* the branches of process_directory a call has entered
    \* --- further state of the specifications above and of SpecParse,
    \* --- SpecStats and SpecSupervisor
    stats,              \* the ProcessingStats passed to run_video_extraction
    list_file,          \* ffmpeg_list.txt in the staging directory
    video_list,         \* the video_list argument of process_directory
    parsed,             \* a file stem and what each parser returned for it
    calls,              \* the add_*_file calls made on stats
    supervisor,         \* the locals of process_stream_ffmpeg
    processor,          \* a ProcessConfig and what Processor::new made of it
    session,            \* one Processor across calls of process_from_source;
                        \* before, entries, seen and failed record the call
    pool_built          \* whether rayon's global pool exists in this process

vars == << entry, config, runState, runResult, scanIdx, video_files_by_dir, jobs,
           temp_dirs_created, lockHolders, snapshot, sweepIdx, fsDirs, staged_by, removedCount,
           pendingReg, sweepRuns, startCount,
           jobPc, videoCount, video_index, staged, unread, image_files,
           ffmpeg_runs, direct, compared, selected,
           stats, list_file, video_list, parsed, calls, supervisor,
           processor, session, pool_built >>

\* Option<T>
None == << >>
Some(x) == << x >>

frameVars == << jobPc, videoCount, video_index, staged, unread, image_files >>

detailVars == << ffmpeg_runs, direct, compared, selected >>

restVars == << processor, session, pool_built >>

moreVars == << list_file, video_list, parsed, calls, supervisor, restVars >>

\* ProcessingStats::new(), without its clock fields
NewStats ==
    [ files_processed |-> 0, files_failed |-> 0, total_size_processed |-> 0,
      errors |-> << >> ]

\* No parser called.
NoParse ==
    [ kind |-> "none", video |-> 0, frame |-> 0, stem |-> << >>,
      called |-> {}, split |-> None, regex |-> None ]

\* No call made on the stats.
NoCalls ==
    [ processed |-> 0, failed |-> 0, sizes |-> 0, last |-> "none",
      before |-> NewStats, rate |-> None ]

\* Processor::new not called.
NoProcessor ==
    [ enable_validation |-> TRUE, input_path |-> "", output_path |-> "",
      processing_mode |-> "none", input_is |-> "none", video_config |-> None,
      via |-> "none", result |-> "none", made |-> None ]

\* No Processor constructed.
NoSession ==
    [ pc |-> "none", mode |-> "none", stats |-> NewStats, before |-> NewStats,
      entries |-> 0, seen |-> 0, failed |-> 0, result |-> "none", calls |-> 0 ]

\* process_stream_ffmpeg not entered.
NoSupervisor ==
    [ program |-> "none", pc |-> "none", ffmpeg_process |-> "None",
      consecutive_failures |-> 0, slept |-> 0, last_event |-> "none",
      failure_run |-> 0, observed_running |-> FALSE, first_after_running |-> FALSE,
      children |-> 0 ]

\* CASE 1 before its first statement: no writer, no size, nothing counted,
\* no output file, no capture.
NoDirectJob ==
    [ output_writer |-> "None", output_frame_size |-> None,
      videos_processed_count |-> 0, writer_opens |-> 0, first_size |-> None,
      file_exists |-> FALSE, written |-> << >>, matched |-> {}, unopenable |-> {},
      cap_size |-> None, total_frames |-> 0, frame_number |-> 0,
      attempted |-> {}, accepted |-> 0, clean |-> TRUE, sampling |-> "none" ]

\* No sort closure called.
NoComparison ==
    [ name_a |-> << >>, name_b |-> << >>,
      concat |-> "none", readback |-> "none", processor |-> "none" ]

\* The variables of the other specifications, at rest.
DirectAtRest == direct = NoDirectJob
PureAtRest == compared = NoComparison /\ selected = << >>

\* ------------------------------------------------------------ configuration
\* num_threads is read only by the parallel branch, so sequential
\* configurations are taken with one value of it.
Configs ==
    { c \in [ processing_mode : {"sequential", "parallel"},
              extraction_mode : {"opencv", "ffmpeg"},
              video_creation_mode : {Some("direct"), Some("temp_frames")},
              frame_interval : {0, 1},
              num_threads : 1..MaxThreads ] :
        c.processing_mode = "sequential" => c.num_threads = 1 }

Threads == MainThread..MaxThreads

\* ------------------------------------------------------------ pure helpers
\* Path::file_name of the input directory, "default" when there is none.
get_directory_tag(input_dir_path) ==
    IF Len(input_dir_path) = 0 \/ input_dir_path[Len(input_dir_path)] = ".."
    THEN "default"
    ELSE input_dir_path[Len(input_dir_path)]

\* output_base.join(format!("{}_{}.mp4", output_prefix, dir_tag))
output_video_path(input_dir_path) ==
    << "output_directory", "output_prefix", "_", get_directory_tag(input_dir_path), ".mp4" >>

\* variant: an absent creation mode defaults to "direct"
creation_mode_DefaultDirect(c) ==
    IF c.video_creation_mode = None THEN "direct" ELSE c.video_creation_mode[1]

\* config.video_creation_mode.as_deref().unwrap_or("temp_frames")
creation_mode(c) ==
    IF c.video_creation_mode = None THEN "temp_frames" ELSE c.video_creation_mode[1]

\* config.extraction_mode == "ffmpeg"
use_ffmpeg_extraction(c) == c.extraction_mode = "ffmpeg"

\* Which of the three branches of process_directory a configuration takes.
Strategy(c) ==
    IF creation_mode(c) = "direct" /\ c.extraction_mode = "opencv"
    THEN "DirectNative"
    ELSE IF creation_mode(c) = "direct" /\ use_ffmpeg_extraction(c)
    THEN "DirectExternal"
    ELSE "StagedConcat"

\* variant: the video that cannot be opened ends the job
OnOpenFailure_Abort(strategy) == "return_err"

\* What follows a video that cannot be opened: CASE 1 opens the capture
\* itself and continues with the next video; extract_frames_opencv returns
\* Err to the extraction loops of the staging branches.
OnOpenFailure(strategy) ==
    IF strategy = "DirectNative" THEN "continue" ELSE "return_err"

\* variant: ffmpeg is run whatever the interval
ffmpeg_interval_rejected_Never(frame_interval) == FALSE

\* extract_frames_ffmpeg: if frame_interval == 0 { return Err(..) }
ffmpeg_interval_rejected(frame_interval) == frame_interval = 0

\* variant: the extraction loop goes on to the next video after an Err
ExtractionLoopOnErr_Continue == "continue"

\* The extraction loops of CASE 2 and CASE 3 on an Err from an extractor:
\* extraction_ok = false; break (process/video.rs returns with ?).
ExtractionLoopOnErr == "break"

\* The staging directory a job names: the pieces of its format! string.
\* Only process/video.rs puts the thread id in the name of the temp_frames
\* directory; both put it in the name of the ffmpeg direct directory.
temp_dir_name(e, strat, input_dir_path, tid) ==
    IF strat = "DirectExternal"
    THEN << "output_prefix", "_", get_directory_tag(input_dir_path), "_ffmpeg_direct_temp_", ToString(tid) >>
    ELSE IF e = "run"
    THEN << "output_prefix", "_", get_directory_tag(input_dir_path), "_temp" >>
    ELSE << "output_prefix", "_", get_directory_tag(input_dir_path), "_temp_", ToString(tid) >>

AllTempDirs ==
    { temp_dir_name(e, s, p, t) :
        e \in {"run", "run_video_extraction"}, s \in {"DirectExternal", "StagedConcat"},
        p \in AllPaths, t \in Threads }

\* HashMap::insert: a key already present keeps its one entry.
HashMapInsert(map, dir) == map \cup {dir}

\* variant: an iterator that yields entries it has already yielded
ToDispatch_Again(js) == DOMAIN js

\* The entries the iterator over the map has still to yield: each entry is
\* yielded once, to one call of process_directory.
ToDispatch(js) == { d \in DOMAIN js : js[d].pc = "pending" }

\* Vec::retain(|p| p != path)
RECURSIVE Retain(_, _)
Retain(list, path) ==
    IF list = << >> THEN << >>
    ELSE IF Head(list) = path THEN Retain(Tail(list), path)
    ELSE << Head(list) >> \o Retain(Tail(list), path)

\* variant: a list shared without the mutex
CanLock_NoMutex(holders) == TRUE

\* Mutex::lock returns once no other thread holds the guard.
CanLock(holders) == holders = {}

\* variant: the sequential loop stops at the first failing directory
LoopAfterJob_Break(result) == IF result = "Err" THEN "break" ELSE "continue"

\* variant: the sequential loop returns the first Err with the ? operator
LoopAfterJob_Propagate(result) == IF result = "Err" THEN "return" ELSE "continue"

\* What the sequential loop does with the result of process_directory:
\* an Err is printed and the loop goes on to the next directory.
LoopAfterJob(result) == "continue"

\* variant: a dispatch that does not wait for its jobs
DispatchDrained_NoJoin(js) == TRUE

\* The statement after the dispatch is reached when the sequential loop has
\* run out of directories, or when for_each has joined every job.
DispatchDrained(js) == \A j \in DOMAIN js : js[j].pc = "done"

\* variant: a cleanup loop that misses the first entry
SweepItems_SkipFirst(list) == IF list = << >> THEN << >> ELSE Tail(list)

\* The cleanup loop iterates the whole Vec behind the guard.
SweepItems(list) == list

NewJob == [ pc |-> "pending", thread |-> MainThread, temp |-> NoPath, result |-> "none" ]

Running(j) == jobs[j].pc \notin {"pending", "done"}
Busy(t) == \E j \in DOMAIN jobs : Running(j) /\ jobs[j].thread = t

\* ---------------------------------------------------------------- initial
\* The locals of a run function at its first statement.
RunStart ==
    /\ entry \in {"run", "run_video_extraction"}
    /\ config \in Configs
    /\ runState = "scan"
    /\ runResult = "none"
    /\ scanIdx = 1
    /\ video_files_by_dir = {}
    /\ jobs = << >>
    /\ temp_dirs_created = << >>
    /\ lockHolders = {}
    /\ snapshot = [ t \in Threads |-> << >> ]
    /\ sweepIdx = 0
    /\ fsDirs = {}
    /\ staged_by = [ p \in AllTempDirs |-> {} ]
    /\ removedCount = [ p \in AllTempDirs |-> 0 ]
    /\ pendingReg = {}
    /\ sweepRuns = 0
    /\ startCount = [ p \in AllPaths |-> 0 ]
    /\ jobPc = "none"
    /\ videoCount = 0
    /\ video_index = 0
    /\ staged = {}
    /\ unread = {}
    /\ image_files = << >>
    /\ ffmpeg_runs = << >>
    /\ stats = NewStats
    /\ list_file = "absent"
    /\ processor = NoProcessor
    /\ session = NoSession
    /\ video_list = << >>
    /\ parsed = NoParse
    /\ calls = NoCalls
    /\ supervisor = NoSupervisor
    /\ DirectAtRest
    /\ PureAtRest

\* The first run of the process: no thread pool has been built.
Init ==
    /\ RunStart
    /\ pool_built = FALSE

jobVars == << jobs, temp_dirs_created, lockHolders, snapshot, fsDirs, staged_by, removedCount,
              pendingReg, startCount >>
sweepVars == << sweepIdx, sweepRuns >>
scanVars == << scanIdx, video_files_by_dir >>

\* ------------------------------------------------------------------- scan
\* One iteration of the loop over config.input_directories, on the entry
\* dir.
ScanDirectory ==
    /\ runState = "scan"
    /\ scanIdx <= MaxDirs
    /\ \E dir \in AllPaths :
        \/ \* not a directory (warning, continue), or no entry of it has a
           \* video extension
           /\ scanIdx' = scanIdx + 1
           /\ UNCHANGED << video_files_by_dir, runState, runResult >>
        \/ \* fs::read_dir fails: the ? returns the error from the run
           /\ runState' = "done"
           /\ runResult' = "Err"
           /\ UNCHANGED << scanIdx, video_files_by_dir >>
        \/ \* directory listed, video files found
           /\ scanIdx' = scanIdx + 1
           /\ video_files_by_dir' = HashMapInsert(video_files_by_dir, dir)
           /\ UNCHANGED << runState, runResult >>
    /\ UNCHANGED << frameVars, detailVars, moreVars, stats, entry, config, sweepVars, jobVars >>

\* ThreadPoolBuilder::build_global succeeds once per process: the sequential
\* branch never calls it, the parallel branch gets Err from the second call on.
PoolReady(c, built) == c.processing_mode = "sequential" \/ ~built


\* The list is exhausted.  The match on processing_mode follows; the
\* parallel branch first builds the global rayon pool, whose failure is
\* returned by the ?.
EnterDispatch ==
    /\ runState = "scan"
    /\ \/ /\ PoolReady(config, pool_built)
          /\ runState' = "dispatch"
          /\ jobs' = [ d \in video_files_by_dir |-> NewJob ]
          /\ pool_built' = (pool_built \/ config.processing_mode # "sequential")
          /\ UNCHANGED runResult
       \/ /\ config.processing_mode # "sequential"
          /\ runState' = "done"
          /\ runResult' = "Err"
          /\ UNCHANGED << jobs, pool_built >>
    /\ UNCHANGED << frameVars, detailVars, list_file, video_list, parsed, calls, supervisor,
                    processor, session, stats, entry, config, scanVars, sweepVars,
                    temp_dirs_created, lockHolders,
                    snapshot, fsDirs, staged_by, removedCount, pendingReg, startCount >>

\* ------------------------------------------------------------------ stats
\* ProcessingStats::add_processed_file
add_processed_file(self, file_size) ==
    [ self EXCEPT !.files_processed = @ + 1,
                  !.total_size_processed = @ + file_size ]

\* ProcessingStats::add_failed_file
add_failed_file(self, error) ==
    [ self EXCEPT !.files_failed = @ + 1,
                  !.errors = Append(@, error) ]

\* Whether the caller of the directory job passes its Err to the stats:
\* only the sequential loop of run_video_extraction calls add_failed_file.
RecordsFailure(e, c) == e = "run_video_extraction" /\ c.processing_mode = "sequential"

\* The stats after the job of directory dir_path returned `result`; the
\* message is format!("Directory {}: {}", dir_path, e).
RecordResult(self, dir_path, result) ==
    IF result = "Err" /\ RecordsFailure(entry, config)
    THEN add_failed_file(self, << "Directory ", dir_path >>)
    ELSE self

\* ------------------------------------------------------------------- jobs
\* process_directory returns `result` to its caller.  In the sequential
\* loop the caller is the run function itself; in the parallel branch it is
\* the for_each closure, which only prints an Err.  A panic unwinds the
\* calling thread: in the sequential loop that is the run function.
Finish(j, rec, result) ==
    /\ jobs' = [ jobs EXCEPT ![j] = [ rec EXCEPT !.pc = "done", !.result = result ] ]
    /\ stats' = RecordResult(stats, j, result)
    /\ IF config.processing_mode = "sequential"
       THEN IF result = "Panic"
            THEN runState' = "aborted" /\ UNCHANGED runResult
            ELSE CASE LoopAfterJob(result) = "continue" -> UNCHANGED << runState, runResult >>
                   [] LoopAfterJob(result) = "break" ->
                        runState' = "drained" /\ UNCHANGED runResult
                   [] LoopAfterJob(result) = "return" ->
                        runState' = "done" /\ runResult' = "Err"
       ELSE UNCHANGED << runState, runResult >>

Continue(j, rec) ==
    /\ jobs' = [ jobs EXCEPT ![j] = rec ]
    /\ UNCHANGED << runState, runResult, stats >>

\* A directory is handed to process_directory on thread t: the calling
\* thread in the sequential loop, an idle pool worker under into_par_iter.
\* The job runs up to its first use of shared state:
\*   fs::create_dir_all(output_base)?, then the branch on the modes, and in
\*   CASE 2 and CASE 3 fs::create_dir_all(&temp_path)?.
StartJob(j, t) ==
    /\ runState = "dispatch"
    /\ j \in ToDispatch(jobs)
    /\ ~Busy(t)
    /\ IF config.processing_mode = "sequential"
       THEN t = MainThread
       ELSE t \in 1..config.num_threads
    /\ startCount' = [ startCount EXCEPT ![j] = @ + 1 ]
    /\ LET rec == [ NewJob EXCEPT !.pc = "start", !.thread = t ]
           path == temp_dir_name(entry, Strategy(config), j, t) IN
        \/ \* the output directory, or the staging directory, cannot be created
           /\ Finish(j, rec, "Err")
           /\ UNCHANGED << fsDirs, removedCount >>
        \/ /\ Strategy(config) = "DirectNative"
           /\ Continue(j, [ rec EXCEPT !.pc = "direct_opencv" ])
           /\ UNCHANGED << fsDirs, removedCount >>
        \/ /\ Strategy(config) # "DirectNative"
           /\ Continue(j, [ rec EXCEPT !.pc = "register", !.temp = path ])
           /\ fsDirs' = fsDirs \cup {path}
           /\ removedCount' = [ removedCount EXCEPT ![path] = 0 ]
    /\ UNCHANGED << frameVars, detailVars, moreVars, entry, config, scanVars, sweepVars, temp_dirs_created, lockHolders,
                    snapshot, pendingReg, staged_by >>

\* CASE 1, OpenCV extract + direct create.  No staging directory.  Videos
\* that do not open are skipped; the writer failing to open or to write
\* returns an Err; (0..total).step_by(0) panics once a video has opened
\* and the writer is open.
DirectOpenCV(j) ==
    /\ jobs[j].pc = "direct_opencv"
    /\ \E result \in {"Ok", "Err", "Panic"} :
        /\ result = "Panic" => config.frame_interval = 0
        /\ Finish(j, jobs[j], result)
    /\ UNCHANGED << frameVars, detailVars, moreVars, entry, config, scanVars, sweepVars, temp_dirs_created, lockHolders,
                    snapshot, fsDirs, staged_by, removedCount, pendingReg, startCount >>

\* temp_dirs_created.lock().unwrap().push(temp_path.clone()): the guard is
\* taken, then the Vec is written through it and the guard dropped.
RegisterLock(j) ==
    /\ jobs[j].pc = "register"
    /\ CanLock(lockHolders)
    /\ lockHolders' = lockHolders \cup {jobs[j].thread}
    /\ snapshot' = [ snapshot EXCEPT ![jobs[j].thread] = temp_dirs_created ]
    /\ Continue(j, [ jobs[j] EXCEPT !.pc = "push" ])
    /\ UNCHANGED << frameVars, detailVars, moreVars, entry, config, scanVars, sweepVars, temp_dirs_created, fsDirs, staged_by,
                    removedCount, pendingReg, startCount >>

RegisterPush(j) ==
    /\ jobs[j].pc = "push"
    /\ temp_dirs_created' = Append(snapshot[jobs[j].thread], jobs[j].temp)
    /\ lockHolders' = lockHolders \ {jobs[j].thread}
    /\ snapshot' = [ snapshot EXCEPT ![jobs[j].thread] = << >> ]
    /\ pendingReg' = pendingReg \cup {jobs[j].temp}
    /\ Continue(j, [ jobs[j] EXCEPT !.pc = "extract" ])
    /\ UNCHANGED << frameVars, detailVars, moreVars, entry, config, scanVars, sweepVars, fsDirs, staged_by, removedCount, startCount >>

\* The extraction loop over sorted_video_list.
\*   extract_frames_ffmpeg: frame_interval = 0 is refused before ffmpeg is
\*     spawned; otherwise ffmpeg runs and a launch failure or a non-zero
\*     exit is an Err.
\*   extract_frames_opencv: a video that does not open is an Err;
\*     step_by(0) panics once the video has opened.
\* The first Err ends the loop and the job (break and return Err, or the
\* ?), whatever the branch; only a loop without an Err reaches assembly.
ExtractVideos(j) ==
    /\ jobs[j].pc = "extract"
    /\ \E outcome \in {"Ok", "Err", "Panic"} :
        /\ IF config.extraction_mode = "ffmpeg"
           THEN IF config.frame_interval = 0
                THEN outcome = "Err"
                ELSE outcome \in {"Ok", "Err"}
           ELSE IF config.frame_interval = 0
                THEN outcome \in {"Err", "Panic"}
                ELSE outcome \in {"Ok", "Err"}
        /\ IF outcome = "Ok"
           THEN /\ Continue(j, [ jobs[j] EXCEPT !.pc = "assemble" ])
                /\ staged_by' = [ staged_by EXCEPT ![jobs[j].temp] = @ \cup {j} ]
           ELSE /\ Finish(j, jobs[j], outcome)
                /\ UNCHANGED staged_by
    /\ UNCHANGED << frameVars, detailVars, moreVars, entry, config, scanVars, sweepVars, temp_dirs_created, lockHolders,
                    snapshot, fsDirs, removedCount, pendingReg, startCount >>

\* After a complete extraction.
\*   run, CASE 2: the staged images are read back and written to a
\*     VideoWriter; read_dir failing, the writer not opening and a write
\*     failing each return an Err at once; otherwise control reaches the
\*     cleanup of the transient directory.
\*   everything else: create_video_from_temp_frames, whose result is the
\*     job's result.
Assemble(j) ==
    /\ jobs[j].pc = "assemble"
    /\ IF entry = "run" /\ Strategy(config) = "DirectExternal"
       THEN \/ Finish(j, jobs[j], "Err")
            \/ Continue(j, [ jobs[j] EXCEPT !.pc = "cleanup" ])
       ELSE \E result \in {"Ok", "Err"} : Finish(j, jobs[j], result)
    /\ UNCHANGED << frameVars, detailVars, moreVars, entry, config, scanVars, sweepVars, temp_dirs_created, lockHolders,
                    snapshot, fsDirs, staged_by, removedCount, pendingReg, startCount >>

\* temp_dirs_created.lock().unwrap().retain(|p| p != &temp_dir_for_extraction)
CleanupLock(j) ==
    /\ jobs[j].pc = "cleanup"
    /\ CanLock(lockHolders)
    /\ lockHolders' = lockHolders \cup {jobs[j].thread}
    /\ snapshot' = [ snapshot EXCEPT ![jobs[j].thread] = temp_dirs_created ]
    /\ Continue(j, [ jobs[j] EXCEPT !.pc = "retain" ])
    /\ UNCHANGED << frameVars, detailVars, moreVars, entry, config, scanVars, sweepVars, temp_dirs_created, fsDirs, staged_by,
                    removedCount, pendingReg, startCount >>

CleanupRetain(j) ==
    /\ jobs[j].pc = "retain"
    /\ temp_dirs_created' = Retain(snapshot[jobs[j].thread], jobs[j].temp)
    /\ lockHolders' = lockHolders \ {jobs[j].thread}
    /\ snapshot' = [ snapshot EXCEPT ![jobs[j].thread] = << >> ]
    /\ pendingReg' = pendingReg \ {jobs[j].temp}
    /\ Continue(j, [ jobs[j] EXCEPT !.pc = "remove" ])
    /\ UNCHANGED << frameVars, detailVars, moreVars, entry, config, scanVars, sweepVars, fsDirs, staged_by, removedCount, startCount >>

\* fs::remove_dir_all(&temp_dir_for_extraction); a failure is a warning.
CleanupRemove(j) ==
    /\ jobs[j].pc = "remove"
    /\ removedCount' = [ removedCount EXCEPT ![jobs[j].temp] = @ + 1 ]
    /\ \/ /\ jobs[j].temp \in fsDirs
          /\ fsDirs' = fsDirs \ {jobs[j].temp}
          /\ staged_by' = [ staged_by EXCEPT ![jobs[j].temp] = {} ]
       \/ UNCHANGED << fsDirs, staged_by >>
    /\ Finish(j, jobs[j], "Ok")
    /\ UNCHANGED << frameVars, detailVars, moreVars, entry, config, scanVars, sweepVars, temp_dirs_created, lockHolders,
                    snapshot, pendingReg, startCount >>

\* ------------------------------------------------------------------ sweep
Panicked == \E j \in DOMAIN jobs : jobs[j].result = "Panic"

\* A panic inside for_each is resumed on the calling thread once the jobs
\* have been joined; the run function unwinds without reaching the sweep.
ResumePanic ==
    /\ runState = "dispatch"
    /\ config.processing_mode # "sequential"
    /\ DispatchDrained(jobs)
    /\ Panicked
    /\ runState' = "aborted"
    /\ UNCHANGED << frameVars, detailVars, moreVars, stats, entry, config, runResult, scanVars, sweepVars, jobVars >>

\* let dirs_to_clean = temp_dirs_created.lock().unwrap();
StartSweep ==
    /\ \/ runState = "dispatch" /\ DispatchDrained(jobs) /\ ~Panicked
       \/ runState = "drained"
    /\ CanLock(lockHolders)
    /\ lockHolders' = lockHolders \cup {MainThread}
    /\ runState' = "sweep"
    /\ sweepIdx' = 1
    /\ sweepRuns' = sweepRuns + 1
    /\ UNCHANGED << frameVars, detailVars, moreVars, stats, entry, config, runResult, scanVars, jobs,
                    temp_dirs_created, snapshot, fsDirs, staged_by, removedCount, pendingReg,
                    startCount >>

\* One iteration of `for dir in dirs_to_clean.iter()`.
SweepStep ==
    /\ runState = "sweep"
    /\ sweepIdx <= Len(SweepItems(temp_dirs_created))
    /\ LET dir == SweepItems(temp_dirs_created)[sweepIdx] IN
        /\ removedCount' = [ removedCount EXCEPT ![dir] = @ + 1 ]
        /\ \/ /\ dir \in fsDirs
              /\ fsDirs' = fsDirs \ {dir}
              /\ staged_by' = [ staged_by EXCEPT ![dir] = {} ]
           \/ UNCHANGED << fsDirs, staged_by >>
    /\ sweepIdx' = sweepIdx + 1
    /\ UNCHANGED << frameVars, detailVars, moreVars, stats, entry, config, runState, runResult, scanVars, sweepRuns, jobs,
                    temp_dirs_created, lockHolders, snapshot, pendingReg, startCount >>

\* End of the cleanup block: the guard is dropped and the run returns Ok(()).
SweepEnd ==
    /\ runState = "sweep"
    /\ sweepIdx > Len(SweepItems(temp_dirs_created))
    /\ lockHolders' = lockHolders \ {MainThread}
    /\ runState' = "done"
    /\ runResult' = "Ok"
    /\ UNCHANGED << frameVars, detailVars, moreVars, stats, entry, config, scanVars, sweepVars, jobs, temp_dirs_created,
                    snapshot, fsDirs, staged_by, removedCount, pendingReg, startCount >>

Next ==
    \/ ScanDirectory
    \/ EnterDispatch
    \/ \E j \in DOMAIN jobs, t \in Threads : StartJob(j, t)
    \/ \E j \in DOMAIN jobs : DirectOpenCV(j)
    \/ \E j \in DOMAIN jobs : RegisterLock(j)
    \/ \E j \in DOMAIN jobs : RegisterPush(j)
    \/ \E j \in DOMAIN jobs : ExtractVideos(j)
    \/ \E j \in DOMAIN jobs : Assemble(j)
    \/ \E j \in DOMAIN jobs : CleanupLock(j)
    \/ \E j \in DOMAIN jobs : CleanupRetain(j)
    \/ \E j \in DOMAIN jobs : CleanupRemove(j)
    \/ ResumePanic
    \/ StartSweep
    \/ SweepStep
    \/ SweepEnd

Spec == Init /\ [][Next]_vars

TypeOK ==
    /\ runState \in {"scan", "dispatch", "drained", "sweep", "done", "aborted"}
    /\ runResult \in {"none", "Ok", "Err"}
    /\ lockHolders \subseteq Threads
    /\ Range(temp_dirs_created) \subseteq AllTempDirs

\* ------------------------------------------------------- repeated runs
\* A run function entered in a process that may have made a parallel run
\* before: the global pool of that run is still there.  A parallel run
\* records nothing in the statistics, so they are as new.
InitRepeat ==
    /\ RunStart
    /\ pool_built \in BOOLEAN

SpecRepeat == InitRepeat /\ [][Next]_vars

\* =================================================== one job's frames
\* ----------------------------------------------------------- file names
\* Characters in ASCII order, for byte-wise comparison.
Alphabet == << "+", ".", "0", "1", "2", "3", "4", "5", "6", "7", "8", "9", "_",
               "a", "b", "c", "d", "e", "f", "g", "h", "i", "j", "k", "l", "m",
               "n", "o", "p", "q", "r", "s", "t", "u", "v", "w", "x", "y", "z" >>
Ord(c) == CHOOSE i \in DOMAIN Alphabet : Alphabet[i] = c
Digits == << "0", "1", "2", "3", "4", "5", "6", "7", "8", "9" >>
IsDigit(c) == \E i \in DOMAIN Digits : Digits[i] = c
DigitValue(c) == (CHOOSE i \in DOMAIN Digits : Digits[i] = c) - 1

StrVideo == << "v", "i", "d", "e", "o" >>
StrFrame == << "f", "r", "a", "m", "e" >>
StrUnderFrame == << "_" >> \o StrFrame
StrDotJpg == << ".", "j", "p", "g" >>

\* Decimal digits of n, as {} formats a usize.
RECURSIVE Decimal(_)
Decimal(n) == IF n < 10 THEN << Digits[n + 1] >>
              ELSE Decimal(n \div 10) \o << Digits[(n % 10) + 1] >>

\* {:0w} and %0wd: zero-padded to at least w digits.
RECURSIVE ZeroPad(_, _)
ZeroPad(digits, w) == IF Len(digits) >= w THEN digits ELSE ZeroPad(<< "0" >> \o digits, w)

\* format!("{}/video{:03}_frame{:07}.jpg", temp_frame_dir, video_index, frame_number)
NativeFrameName(vi, frame_number) ==
    StrVideo \o ZeroPad(Decimal(vi), 3) \o StrUnderFrame
             \o ZeroPad(Decimal(frame_number), 7) \o StrDotJpg

\* format!("video{}_frame%06d.jpg", video_index), the %06d filled in by
\* ffmpeg with the number of the image it writes.
FfmpegFrameName(vi, image_number) ==
    StrVideo \o Decimal(vi) \o StrUnderFrame
             \o ZeroPad(Decimal(image_number), 6) \o StrDotJpg

StartsWith(str, prefix) ==
    Len(str) >= Len(prefix) /\ SubSeq(str, 1, Len(prefix)) = prefix

\* Path::file_stem: the file name without its last extension.
RECURSIVE FileStem(_)
FileStem(name) ==
    IF \A i \in 2..Len(name) : name[i] # "."
    THEN name
    ELSE IF name[Len(name)] = "." THEN SubSeq(name, 1, Len(name) - 1)
    ELSE FileStem(SubSeq(name, 1, Len(name) - 1))

\* str::split(ch): the pieces between the occurrences of ch.
RECURSIVE Split(_, _)
Split(str, ch) ==
    IF \A i \in DOMAIN str : str[i] # ch
    THEN << str >>
    ELSE LET k == CHOOSE i \in DOMAIN str :
                    str[i] = ch /\ \A h \in 1..(i - 1) : str[h] # ch
         IN << SubSeq(str, 1, k - 1) >> \o Split(SubSeq(str, k + 1, Len(str)), ch)

\* str::replace(pat, ""): every non-overlapping occurrence, left to right.
RECURSIVE RemoveAll(_, _)
RemoveAll(str, pat) ==
    IF Len(str) < Len(pat) THEN str
    ELSE IF StartsWith(str, pat) THEN RemoveAll(SubSeq(str, Len(pat) + 1, Len(str)), pat)
    ELSE << Head(str) >> \o RemoveAll(Tail(str), pat)

RECURSIVE DigitsValue(_)
DigitsValue(digits) ==
    IF digits = << >> THEN 0
    ELSE 10 * DigitsValue(SubSeq(digits, 1, Len(digits) - 1))
           + DigitValue(digits[Len(digits)])

\* variant: a number written with leading zeros is refused
ParseUsize_NoLeadingZeros(str) ==
    LET body == IF str # << >> /\ Head(str) = "+" THEN Tail(str) ELSE str IN
    IF body # << >> /\ (\A i \in DOMAIN body : IsDigit(body[i]))
       /\ (Len(body) > 1 => Head(body) # "0")
    THEN Some(DigitsValue(body))
    ELSE None

\* str::parse::<usize>().ok(): an optional "+", then one or more digits.
ParseUsize(str) ==
    LET body == IF str # << >> /\ Head(str) = "+" THEN Tail(str) ELSE str IN
    IF body # << >> /\ \A i \in DOMAIN body : IsDigit(body[i])
    THEN Some(DigitsValue(body))
    ELSE None

\* variant: the two numbers of the name returned in the other order
parse_frame_filename_Swapped(filename) ==
    LET parts == Split(filename, "_") IN
    IF Len(parts) = 2 /\ StartsWith(parts[1], StrVideo) /\ StartsWith(parts[2], StrFrame)
    THEN LET video_num == ParseUsize(RemoveAll(parts[1], StrVideo))
             frame_num == ParseUsize(RemoveAll(parts[2], StrFrame))
         IN IF video_num = None \/ frame_num = None
            THEN None
            ELSE Some(<< frame_num[1], video_num[1] >>)
    ELSE None

\* variant: the video number of the name is not returned
parse_frame_filename_FrameOnly(filename) ==
    LET parts == Split(filename, "_") IN
    IF Len(parts) = 2 /\ StartsWith(parts[1], StrVideo) /\ StartsWith(parts[2], StrFrame)
    THEN LET video_num == ParseUsize(RemoveAll(parts[1], StrVideo))
             frame_num == ParseUsize(RemoveAll(parts[2], StrFrame))
         IN IF video_num = None \/ frame_num = None
            THEN None
            ELSE Some(<< 0, frame_num[1] >>)
    ELSE None

\* parse_frame_filename of extraction/video.rs: Some(<<video, frame>>) or None
parse_frame_filename(filename) ==
    LET parts == Split(filename, "_") IN
    IF Len(parts) = 2 /\ StartsWith(parts[1], StrVideo) /\ StartsWith(parts[2], StrFrame)
    THEN LET video_num == ParseUsize(RemoveAll(parts[1], StrVideo))
             frame_num == ParseUsize(RemoveAll(parts[2], StrFrame))
         IN IF video_num = None \/ frame_num = None
            THEN None
            ELSE Some(<< video_num[1], frame_num[1] >>)
    ELSE None

\* Ord::cmp on two numbers
CmpNat(a, b) == IF a < b THEN "Less" ELSE IF a > b THEN "Greater" ELSE "Equal"

\* a.cmp(&b).then_with(|| c)
ThenWith(first, second) == IF first = "Equal" THEN second ELSE first

\* Path::cmp of two entries of one directory: their names, byte by byte.
RECURSIVE CmpPath(_, _)
CmpPath(a, b) ==
    IF a = << >> /\ b = << >> THEN "Equal"
    ELSE IF a = << >> THEN "Less"
    ELSE IF b = << >> THEN "Greater"
    ELSE IF Head(a) = Head(b) THEN CmpPath(Tail(a), Tail(b))
    ELSE CmpNat(Ord(Head(a)), Ord(Head(b)))

\* The closure given to sort_by in create_video_from_temp_frames.
CompareConcat(name_a, name_b) ==
    LET pa == parse_frame_filename(FileStem(name_a))
        pb == parse_frame_filename(FileStem(name_b)) IN
    IF pa # None /\ pb # None
    THEN ThenWith(CmpNat(pa[1][1], pb[1][1]), CmpNat(pa[1][2], pb[1][2]))
    ELSE IF pa # None THEN "Less"
    ELSE IF pb # None THEN "Greater"
    ELSE "Equal"

\* The closure given to sort_by in the read-back of CASE 2.
CompareDirect(name_a, name_b) ==
    LET pa == parse_frame_filename(FileStem(name_a))
        pb == parse_frame_filename(FileStem(name_b)) IN
    IF pa # None /\ pb # None
    THEN ThenWith(CmpNat(pa[1][1], pb[1][1]), CmpNat(pa[1][2], pb[1][2]))
    ELSE CmpPath(name_a, name_b)

\* The comparator the job's assembly step sorts with.
FrameOrder(c, name_a, name_b) ==
    IF Strategy(c) = "DirectExternal"
    THEN CompareDirect(name_a, name_b)
    ELSE CompareConcat(name_a, name_b)

\* sort_by is a stable sort; the model keeps the collected entries sorted,
\* placing each new entry after every entry that does not compare Greater
\* than it, which is the order a stable sort of the whole listing gives.
RECURSIVE InsertPosition(_, _, _, _)
InsertPosition(c, list, item, i) ==
    IF i = 0 THEN 0
    ELSE IF FrameOrder(c, list[i].name, item.name) = "Greater"
    THEN InsertPosition(c, list, item, i - 1)
    ELSE i

SortedInsert(c, list, item) ==
    LET k == InsertPosition(c, list, item, Len(list)) IN
    SubSeq(list, 1, k) \o << item >> \o SubSeq(list, k + 1, Len(list))

\* (0..total_frames).step_by(frame_interval)
SampledIndices(total_frames, frame_interval) ==
    { n \in 0..(total_frames - 1) : n % frame_interval = 0 }

\* The source frames ffmpeg's select=not(mod(n,interval)) filter passes, in
\* the order it numbers the images it writes, starting at 1.
FfmpegSourceFrame(image_number, frame_interval) == (image_number - 1) * frame_interval

\* ----------------------------------------------------------- job actions
JobConfigs ==
    { c \in [ processing_mode : {"sequential"},
              extraction_mode : {"opencv", "ffmpeg"},
              video_creation_mode : {Some("direct"), Some("temp_frames")},
              frame_interval : {0, 1, 2},
              num_threads : {1} ] :
        Strategy(c) # "DirectNative" }

lifecycleVars == << runState, runResult, scanIdx, video_files_by_dir, jobs,
                    temp_dirs_created, lockHolders, snapshot, sweepIdx, fsDirs, staged_by,
                    removedCount, pendingReg, sweepRuns, startCount, stats >>

\* A process_directory call of run, in CASE 2 or CASE 3, with its staging
\* directory created and empty and its video list sorted.
InitJob ==
    /\ entry = "run"
    /\ config \in JobConfigs
    /\ runState = "dispatch"
    /\ runResult = "none"
    /\ scanIdx = 1
    /\ video_files_by_dir = {}
    /\ jobs = << >>
    /\ temp_dirs_created = << >>
    /\ lockHolders = {}
    /\ snapshot = [ t \in Threads |-> << >> ]
    /\ sweepIdx = 0
    /\ fsDirs = {}
    /\ staged_by = [ p \in AllTempDirs |-> {} ]
    /\ removedCount = [ p \in AllTempDirs |-> 0 ]
    /\ pendingReg = {}
    /\ sweepRuns = 0
    /\ startCount = [ p \in AllPaths |-> 0 ]
    /\ jobPc = "extract"
    /\ videoCount \in 1..MaxVideos
    /\ video_index = 0
    /\ staged = {}
    /\ unread = {}
    /\ image_files = << >>
    /\ ffmpeg_runs = << >>
    /\ stats = NewStats
    /\ list_file = "absent"
    /\ processor = NoProcessor
    /\ session = NoSession
    /\ pool_built = FALSE
    /\ video_list = << >>
    /\ parsed = NoParse
    /\ calls = NoCalls
    /\ supervisor = NoSupervisor
    /\ DirectAtRest
    /\ PureAtRest

\* extract_frames_opencv on the video at video_index: it has total_frames
\* frames; of the sampled indices, the frames that are sought, read and
\* not empty are written (a failed seek or an empty frame skips one index,
\* a failed read ends the loop).
JobExtractOpenCV ==
    /\ jobPc = "extract"
    /\ config.extraction_mode # "ffmpeg"
    /\ config.frame_interval >= 1
    /\ video_index < videoCount
    /\ \E total_frames \in 0..MaxFrames :
       \E written \in SUBSET SampledIndices(total_frames, config.frame_interval) :
          staged' = staged \cup
             { [ name |-> NativeFrameName(video_index, n), video |-> video_index,
                 frame |-> n ] : n \in written }
    /\ video_index' = video_index + 1
    /\ UNCHANGED << entry, config, lifecycleVars, moreVars, detailVars, jobPc, videoCount, unread, image_files >>

\* extract_frames_opencv opens its video and builds step_by(0): a panic.
JobStepByZero ==
    /\ jobPc = "extract"
    /\ config.extraction_mode # "ffmpeg"
    /\ config.frame_interval = 0
    /\ video_index < videoCount
    /\ jobPc' = "panicked"
    /\ UNCHANGED << entry, config, lifecycleVars, moreVars, detailVars, videoCount, video_index, staged,
                    unread, image_files >>

\* The job's reaction to an Err of kind `failure` from an extractor.
JobAfterErr(failure) ==
    IF ExtractionLoopOnErr = "break"
    THEN jobPc' = failure /\ video_index' = video_index
    ELSE jobPc' = jobPc /\ video_index' = video_index + 1

\* extract_frames_opencv cannot open its video.
JobOpenFails ==
    /\ jobPc = "extract"
    /\ config.extraction_mode # "ffmpeg"
    /\ video_index < videoCount
    /\ IF OnOpenFailure(Strategy(config)) = "return_err"
       THEN JobAfterErr("failed_open")
       ELSE jobPc' = jobPc /\ video_index' = video_index + 1
    /\ UNCHANGED << entry, config, lifecycleVars, moreVars, detailVars, videoCount, staged, unread,
                    image_files >>

\* extract_frames_ffmpeg is given an interval it rejects: Err before the
\* Command is built.
JobIntervalRejected ==
    /\ jobPc = "extract"
    /\ config.extraction_mode = "ffmpeg"
    /\ video_index < videoCount
    /\ ffmpeg_interval_rejected(config.frame_interval)
    /\ JobAfterErr("failed_interval")
    /\ UNCHANGED << entry, config, lifecycleVars, moreVars, detailVars, videoCount, staged, unread,
                    image_files >>

\* extract_frames_ffmpeg on the video at video_index: ffmpeg runs, writes
\* the frames its filter selects as images numbered from 1, and exits 0.
JobExtractFfmpeg ==
    /\ jobPc = "extract"
    /\ config.extraction_mode = "ffmpeg"
    /\ video_index < videoCount
    /\ ~ffmpeg_interval_rejected(config.frame_interval)
    /\ \E images \in 0..MaxFrames :
          staged' = staged \cup
             { [ name |-> FfmpegFrameName(video_index, i), video |-> video_index,
                 frame |-> FfmpegSourceFrame(i, config.frame_interval) ] : i \in 1..images }
    /\ ffmpeg_runs' = Append(ffmpeg_runs, "ok")
    /\ video_index' = video_index + 1
    /\ UNCHANGED << entry, config, lifecycleVars, moreVars, direct, compared, selected, jobPc, videoCount,
                    unread, image_files >>

\* ffmpeg runs and exits non-zero, having written some images or none.
JobFfmpegExitFails ==
    /\ jobPc = "extract"
    /\ config.extraction_mode = "ffmpeg"
    /\ video_index < videoCount
    /\ ~ffmpeg_interval_rejected(config.frame_interval)
    /\ \E images \in 0..MaxFrames :
          staged' = staged \cup
             { [ name |-> FfmpegFrameName(video_index, i), video |-> video_index,
                 frame |-> FfmpegSourceFrame(i, config.frame_interval) ] : i \in 1..images }
    /\ ffmpeg_runs' = Append(ffmpeg_runs, "fail")
    /\ JobAfterErr("failed_exit")
    /\ UNCHANGED << entry, config, lifecycleVars, moreVars, direct, compared, selected, videoCount,
                    unread, image_files >>

\* An extractor returns another Err (create_dir_all, imwrite, an OpenCV
\* call, the spawn of ffmpeg): the loop breaks and the job returns Err.
JobExtractFails ==
    /\ jobPc = "extract"
    /\ video_index < videoCount
    /\ jobPc' = "failed"
    /\ UNCHANGED << entry, config, lifecycleVars, moreVars, detailVars, videoCount, video_index, staged, unread,
                    image_files >>

\* fs::read_dir of the staging directory, filtered to .jpg files.  No
\* entry: no video is created.
JobListStaging ==
    /\ jobPc = "extract"
    /\ video_index = videoCount
    /\ unread' = { f \in staged :
                     Len(f.name) >= 4
                     /\ SubSeq(f.name, Len(f.name) - 3, Len(f.name)) = StrDotJpg }
    /\ jobPc' = IF unread' = {} THEN "no_frames" ELSE "list"
    /\ UNCHANGED << entry, config, lifecycleVars, moreVars, detailVars, videoCount, video_index, staged,
                    image_files >>

\* read_dir yields one more entry, in the order the file system chooses.
JobReadEntry ==
    /\ jobPc = "list"
    /\ \E f \in unread :
        /\ unread' = unread \ {f}
        /\ image_files' = SortedInsert(config, image_files, f)
    /\ UNCHANGED << entry, config, lifecycleVars, moreVars, detailVars, jobPc, videoCount, video_index, staged >>

\* The sorted entries are handed to the assembly: the concat list file is
\* written from them, or they are read back into the VideoWriter.
JobAssemble ==
    /\ jobPc = "list"
    /\ unread = {}
    /\ jobPc' = "assembled"
    /\ UNCHANGED << entry, config, lifecycleVars, moreVars, detailVars, videoCount, video_index, staged, unread,
                    image_files >>

\* The outcomes of Command::output() on the concat command.
ConcatOutcomes == { "launch_failed", "exit_nonzero", "success" }

\* Whether create_video_from_temp_frames calls fs::remove_file on the list
\* file before it returns: extraction/video.rs does after a non-zero exit
\* and after a success, and returns through `cmd.output()?` without it when
\* the command cannot be launched; process/video.rs has no remove_file call
\* for the list file at all.
RemovesListFile(e, outcome) ==
    /\ e = "run"
    /\ outcome \in { "exit_nonzero", "success" }

\* create_video_from_temp_frames, the list file: fs::File::create, the
\* writeln! of one line per entry (a failed write is only logged), flush.
\* The `?` on create returns with no file, the `?` on flush with the file.
JobWriteListFile ==
    /\ jobPc = "assembled"
    /\ Strategy(config) = "StagedConcat"
    /\ \E io \in { "ok", "create_failed", "flush_failed" } :
         /\ list_file' = IF io = "create_failed" THEN "absent" ELSE "present"
         /\ jobPc' = IF io = "ok" THEN "list_written" ELSE "list_" \o io
    /\ UNCHANGED << entry, config, lifecycleVars, video_list, parsed, calls, supervisor, restVars,
                    detailVars, videoCount, video_index, staged, unread, image_files >>

\* create_video_from_temp_frames, the ffmpeg concat run and the return.
JobConcat ==
    /\ jobPc = "list_written"
    /\ \E outcome \in ConcatOutcomes :
         /\ list_file' = IF RemovesListFile(entry, outcome) THEN "absent" ELSE list_file
         /\ jobPc' = "concat_" \o outcome
    /\ UNCHANGED << entry, config, lifecycleVars, video_list, parsed, calls, supervisor, restVars,
                    detailVars, videoCount, video_index, staged, unread, image_files >>

NextJob ==
    \/ JobWriteListFile
    \/ JobConcat
    \/ JobExtractOpenCV
    \/ JobStepByZero
    \/ JobOpenFails
    \/ JobIntervalRejected
    \/ JobExtractFfmpeg
    \/ JobFfmpegExitFails
    \/ JobExtractFails
    \/ JobListStaging
    \/ JobReadEntry
    \/ JobAssemble

SpecJob == InitJob /\ [][NextJob]_vars

\* ================================================ one DirectNative job
\* The file names read_dir can return for a directory of n videos:
\* "5.mp4", "10.mp4", "15.mp4", ...
VideoFileName(i) == Decimal(5 * i) \o << ".", "m", "p", "4" >>

\* The orders in which the scan can hand the n files to the job.
VideoLists(n) ==
    { list \in [ 1..n -> { VideoFileName(i) : i \in 1..n } ] :
        \A i, j \in 1..n : i # j => list[i] # list[j] }

\* Where sort() puts path among the sorted paths before it.
RECURSIVE InsertPath(_, _)
InsertPath(sorted, path) ==
    IF sorted = << >> THEN << path >>
    ELSE IF CmpPath(path, Head(sorted)) = "Less" THEN << path >> \o sorted
    ELSE << Head(sorted) >> \o InsertPath(Tail(sorted), path)

\* variant: the list is used in the order the scan returned it
SortPaths_Unsorted(list) == list

\* Vec<PathBuf>::sort()
RECURSIVE SortPaths(_)
SortPaths(list) ==
    IF list = << >> THEN << >>
    ELSE InsertPath(SortPaths(SubSeq(list, 1, Len(list) - 1)), list[Len(list)])

\* let mut sorted_video_list = video_list; sorted_video_list.sort();
sorted_video_list == SortPaths(video_list)

\* Frame sizes (width, height) a capture can report and a frame can have.
FrameSizes == { << 1, 1 >>, << 2, 1 >> }
CapSizes == FrameSizes \cup { << 0, 0 >> }

\* width > 0 && height > 0
PositiveSize(size) == size[1] > 0 /\ size[2] > 0

\* output_writer.is_none()
WriterMissing(output_writer) == output_writer = "None"

\* variant: a frame of any size is written
SizeMatches_Any(frame_size, expected_size) == TRUE

\* frame.size()? != expected_size, negated
SizeMatches(frame_size, expected_size) == frame_size = expected_size

\* variant: the loop advances one frame too far
NextFrameNumber_OneMore(frame_number, frame_interval) == frame_number + frame_interval + 1

\* step_by(frame_interval): the next index of the frame loop
NextFrameNumber(frame_number, frame_interval) == frame_number + frame_interval

DirectConfigs ==
    { c \in [ processing_mode : {"sequential"},
              extraction_mode : {"opencv"},
              video_creation_mode : {Some("direct")},
              frame_interval : {0, 1, 2},
              num_threads : {1} ] :
        Strategy(c) = "DirectNative" }

\* A process_directory call that takes CASE 1, at the top of its video loop.
DirectJobStart ==
    /\ config \in DirectConfigs
    /\ runState = "dispatch"
    /\ runResult = "none"
    /\ scanIdx = 1
    /\ video_files_by_dir = {}
    /\ jobs = << >>
    /\ temp_dirs_created = << >>
    /\ lockHolders = {}
    /\ snapshot = [ t \in Threads |-> << >> ]
    /\ sweepIdx = 0
    /\ fsDirs = {}
    /\ staged_by = [ p \in AllTempDirs |-> {} ]
    /\ removedCount = [ p \in AllTempDirs |-> 0 ]
    /\ pendingReg = {}
    /\ sweepRuns = 0
    /\ startCount = [ p \in AllPaths |-> 0 ]
    /\ jobPc = "d_video"
    /\ videoCount \in 1..MaxVideos
    /\ video_index = 0
    /\ staged = {}
    /\ unread = {}
    /\ image_files = << >>
    /\ ffmpeg_runs = << >>
    /\ stats = NewStats
    /\ list_file = "absent"
    /\ processor = NoProcessor
    /\ session = NoSession
    /\ pool_built = FALSE
    /\ parsed = NoParse
    /\ calls = NoCalls
    /\ supervisor = NoSupervisor
    /\ direct = NoDirectJob
    /\ PureAtRest

\* The job is given the files in the order of their numbers.
InitDirect ==
    /\ entry \in {"run", "run_video_extraction"}
    /\ DirectJobStart
    /\ video_list = [ i \in 1..videoCount |-> VideoFileName(i) ]

\* SpecOrder: the DirectNative job of run, given the files in any order.
InitOrder ==
    /\ entry = "run"
    /\ DirectJobStart
    /\ video_list \in VideoLists(videoCount)

directUnchanged == << entry, config, lifecycleVars, moreVars, videoCount, staged, unread, image_files,
                      ffmpeg_runs, compared, selected >>

\* VideoCapture::from_file and is_opened on the video at video_index.
DirectOpenVideo ==
    /\ jobPc = "d_video"
    /\ video_index < videoCount
    /\ \/ \* from_file returns Err, or is_opened returns false
          /\ direct' = [ direct EXCEPT !.unopenable = @ \cup {video_index} ]
          /\ IF OnOpenFailure(Strategy(config)) = "continue"
             THEN jobPc' = jobPc /\ video_index' = video_index + 1
             ELSE jobPc' = "d_failed" /\ video_index' = video_index
       \/ \* the capture is open
          \E size \in CapSizes, n \in 0..MaxFrames :
            /\ direct' = [ direct EXCEPT !.cap_size = size, !.total_frames = n,
                                         !.sampling = "none" ]
            /\ jobPc' = IF WriterMissing(direct.output_writer) THEN "d_init" ELSE "d_sample"
            /\ video_index' = video_index
    /\ UNCHANGED directUnchanged

\* The writer is initialized from the first video with a valid size.
DirectInitWriter ==
    /\ jobPc = "d_init"
    /\ IF PositiveSize(direct.cap_size)
       THEN \/ \* VideoWriter::new returns Err, or the writer is not opened
               /\ jobPc' = "d_failed"
               /\ direct' = [ direct EXCEPT
                     !.first_size = IF @ = None THEN Some(direct.cap_size) ELSE @ ]
               /\ video_index' = video_index
            \/ /\ jobPc' = "d_sample"
               /\ direct' = [ direct EXCEPT
                     !.first_size = IF @ = None THEN Some(direct.cap_size) ELSE @,
                     !.output_frame_size = Some(direct.cap_size),
                     !.output_writer = "Some",
                     !.writer_opens = @ + 1,
                     !.file_exists = TRUE ]
               /\ video_index' = video_index
       ELSE \* no valid size: try the next video
            /\ jobPc' = "d_video"
            /\ video_index' = video_index + 1
            /\ direct' = direct
    /\ UNCHANGED directUnchanged

\* (0..total_frames_cv).step_by(config.frame_interval) is built: step_by
\* panics on a step of 0.
DirectStartSampling ==
    /\ jobPc = "d_sample"
    /\ IF config.frame_interval = 0
       THEN jobPc' = "d_panicked" /\ direct' = direct
       ELSE /\ jobPc' = "d_frame"
            /\ direct' = [ direct EXCEPT !.frame_number = 0, !.attempted = {},
                                         !.accepted = 0, !.clean = TRUE,
                                         !.sampling = "running" ]
    /\ UNCHANGED << video_index, directUnchanged >>

\* One iteration of the frame loop: seek, read, check, write.
DirectFrame ==
    /\ jobPc = "d_frame"
    /\ direct.frame_number < direct.total_frames
    /\ LET at == [ direct EXCEPT
                     !.attempted = @ \cup {direct.frame_number},
                     !.frame_number = NextFrameNumber(@, config.frame_interval) ]
       IN
       \/ \* cap.set returns false, or the frame read is empty: continue
          /\ direct' = [ at EXCEPT !.clean = FALSE ]
          /\ jobPc' = jobPc
          /\ video_index' = video_index
       \/ \* cap.read returns false: break
          /\ direct' = [ at EXCEPT !.clean = FALSE, !.sampling = "stopped",
                                   !.videos_processed_count = @ + 1 ]
          /\ jobPc' = "d_video"
          /\ video_index' = video_index + 1
       \/ \* a frame is read
          \E size \in FrameSizes :
            LET fr == [ video |-> video_index, frame |-> direct.frame_number, size |-> size,
                        source |-> sorted_video_list[video_index + 1] ]
                got == [ at EXCEPT
                           !.accepted = @ + 1,
                           !.matched = IF Some(size) = direct.first_size
                                       THEN @ \cup {fr} ELSE @ ]
            IN
            IF SizeMatches(size, direct.output_frame_size[1])
            THEN \/ \* writer.write returns Ok
                    /\ direct' = [ got EXCEPT !.written = Append(@, fr) ]
                    /\ jobPc' = jobPc
                    /\ video_index' = video_index
                 \/ \* writer.write returns Err: release, return Err
                    /\ direct' = [ got EXCEPT !.output_writer = "released" ]
                    /\ jobPc' = "d_write_failed"
                    /\ video_index' = video_index
            ELSE \* a frame of another size: continue
                 /\ direct' = got
                 /\ jobPc' = jobPc
                 /\ video_index' = video_index
    /\ UNCHANGED directUnchanged

\* The range of the frame loop is exhausted.
DirectEndVideo ==
    /\ jobPc = "d_frame"
    /\ direct.frame_number >= direct.total_frames
    /\ direct' = [ direct EXCEPT !.sampling = "exhausted",
                                 !.videos_processed_count = @ + 1 ]
    /\ jobPc' = "d_video"
    /\ video_index' = video_index + 1
    /\ UNCHANGED directUnchanged

\* An OpenCV call propagated with ? returns Err (is_opened, get, set, read,
\* size, fourcc), wherever in the loop body the job is.
DirectOpenCVError ==
    /\ jobPc \in {"d_init", "d_sample", "d_frame"}
    /\ jobPc' = "d_failed"
    /\ UNCHANGED << video_index, direct, directUnchanged >>

\* After the video loop: release the writer; remove the output file when
\* no video was processed.
DirectRelease ==
    /\ jobPc = "d_video"
    /\ video_index = videoCount
    /\ IF direct.output_writer = "Some"
       THEN \/ \* writer.release()? returns Err
               /\ jobPc' = "d_failed"
               /\ direct' = direct
            \/ /\ jobPc' = "d_done"
               /\ direct' = [ direct EXCEPT
                     !.output_writer = "released",
                     !.file_exists = IF direct.videos_processed_count > 0 THEN @ ELSE FALSE ]
       ELSE /\ jobPc' = "d_done"
            /\ direct' = direct
    /\ UNCHANGED << video_index, directUnchanged >>

NextDirect ==
    \/ DirectOpenVideo
    \/ DirectInitWriter
    \/ DirectStartSampling
    \/ DirectFrame
    \/ DirectEndVideo
    \/ DirectOpenCVError
    \/ DirectRelease

SpecDirect == InitDirect /\ [][NextDirect]_vars

SpecOrder == InitOrder /\ [][NextDirect]_vars

\* ================================================== the sort closures
\* Length of the longest prefix of str made of digits: what \d+ consumes.
RECURSIVE DigitRun(_)
DigitRun(str) ==
    IF str # << >> /\ IsDigit(Head(str)) THEN 1 + DigitRun(Tail(str)) ELSE 0

\* The regex video(\d+)_frame(\d+) matched at the start of str.
RegexMatchAt(str) ==
    IF ~StartsWith(str, StrVideo) THEN None
    ELSE LET r1 == SubSeq(str, Len(StrVideo) + 1, Len(str))
             n1 == DigitRun(r1)
             r2 == SubSeq(r1, n1 + 1, Len(r1))
         IN IF n1 = 0 \/ ~StartsWith(r2, StrUnderFrame) THEN None
            ELSE LET r3 == SubSeq(r2, Len(StrUnderFrame) + 1, Len(r2))
                     n2 == DigitRun(r3)
                 IN IF n2 = 0 THEN None
                    ELSE Some(<< DigitsValue(SubSeq(r1, 1, n1)),
                                 DigitsValue(SubSeq(r3, 1, n2)) >>)

\* Regex::captures: the leftmost match anywhere in the string.
RECURSIVE RegexCaptures(_)
RegexCaptures(str) ==
    IF str = << >> THEN None
    ELSE IF RegexMatchAt(str) # None THEN RegexMatchAt(str)
    ELSE RegexCaptures(Tail(str))

\* VideoProcessor::parse_frame_filename of process/video.rs
parse_frame_filename_regex(filename) == RegexCaptures(filename)

\* The closure given to sort_by in VideoProcessor::create_video_from_temp_frames.
CompareProcessor(name_a, name_b) ==
    LET pa == parse_frame_filename_regex(FileStem(name_a))
        pb == parse_frame_filename_regex(FileStem(name_b)) IN
    IF pa # None /\ pb # None
    THEN ThenWith(CmpNat(pa[1][1], pb[1][1]), CmpNat(pa[1][2], pb[1][2]))
    ELSE IF pa # None THEN "Less"
    ELSE IF pb # None THEN "Greater"
    ELSE "Equal"

\* File names a staging directory can hold: names of both writers, and
\* .jpg files that are not frames of this program.
CmpNames ==
    { NativeFrameName(0, 1), NativeFrameName(1, 0), FfmpegFrameName(0, 2),
      FfmpegFrameName(1, 1),
      << "a", ".", "j", "p", "g" >>, << "z", ".", "j", "p", "g" >>,
      << "x" >> \o FfmpegFrameName(1, 2),
      StrVideo \o << "0", "1" >> \o StrDotJpg }

InitCmp ==
    /\ entry \in {"run", "run_video_extraction"}
    /\ config \in { c \in Configs : c.processing_mode = "sequential" /\ c.frame_interval = 1
                                     /\ Strategy(c) = "StagedConcat" /\ c.extraction_mode = "opencv" }
    /\ runState = "dispatch"
    /\ runResult = "none"
    /\ scanIdx = 1
    /\ video_files_by_dir = {}
    /\ jobs = << >>
    /\ temp_dirs_created = << >>
    /\ lockHolders = {}
    /\ snapshot = [ t \in Threads |-> << >> ]
    /\ sweepIdx = 0
    /\ fsDirs = {}
    /\ staged_by = [ p \in AllTempDirs |-> {} ]
    /\ removedCount = [ p \in AllTempDirs |-> 0 ]
    /\ pendingReg = {}
    /\ sweepRuns = 0
    /\ startCount = [ p \in AllPaths |-> 0 ]
    /\ jobPc = "none"
    /\ videoCount = 0
    /\ video_index = 0
    /\ staged = {}
    /\ unread = {}
    /\ image_files = << >>
    /\ ffmpeg_runs = << >>
    /\ stats = NewStats
    /\ list_file = "absent"
    /\ processor = NoProcessor
    /\ session = NoSession
    /\ pool_built = FALSE
    /\ video_list = << >>
    /\ parsed = NoParse
    /\ calls = NoCalls
    /\ supervisor = NoSupervisor
    /\ DirectAtRest
    /\ selected = << >>
    /\ \E a, b \in CmpNames :
         compared = [ NoComparison EXCEPT !.name_a = a, !.name_b = b ]

\* sort_by of create_video_from_temp_frames calls its closure on the pair.
CallCompareConcat ==
    /\ compared.concat = "none"
    /\ compared' = [ compared EXCEPT !.concat = CompareConcat(compared.name_a, compared.name_b) ]
    /\ UNCHANGED << entry, config, lifecycleVars, moreVars, frameVars, ffmpeg_runs, direct, selected >>

\* sort_by of the CASE 2 read-back calls its closure on the pair.
CallCompareDirect ==
    /\ compared.readback = "none"
    /\ compared' = [ compared EXCEPT !.readback = CompareDirect(compared.name_a, compared.name_b) ]
    /\ UNCHANGED << entry, config, lifecycleVars, moreVars, frameVars, ffmpeg_runs, direct, selected >>

\* sort_by of VideoProcessor::create_video_from_temp_frames calls its closure.
CallCompareProcessor ==
    /\ compared.processor = "none"
    /\ compared' = [ compared EXCEPT !.processor = CompareProcessor(compared.name_a, compared.name_b) ]
    /\ UNCHANGED << entry, config, lifecycleVars, moreVars, frameVars, ffmpeg_runs, direct, selected >>

NextCmp ==
    \/ CallCompareConcat
    \/ CallCompareDirect
    \/ CallCompareProcessor

SpecCmp == InitCmp /\ [][NextCmp]_vars

\* ============================================== the choice of branch
\* The extractor a branch calls: CASE 1 samples with OpenCV inline, CASE 2
\* calls extract_frames_ffmpeg, CASE 3 calls one or the other.
Extractor(c) ==
    IF Strategy(c) = "DirectNative" THEN "opencv"
    ELSE IF Strategy(c) = "DirectExternal" THEN "ffmpeg"
    ELSE IF use_ffmpeg_extraction(c) THEN "ffmpeg"
    ELSE "opencv"

\* Values of the two mode fields: the documented ones, misspelt and empty
\* ones, and an absent creation mode.
SelectConfigs ==
    [ processing_mode : {"sequential"},
      extraction_mode : {"opencv", "ffmpeg", "ffmpeg_interval", "OpenCV", ""},
      video_creation_mode : {None, Some("direct"), Some("temp_frames"), Some("Direct"), Some("")},
      frame_interval : {1},
      num_threads : {1} ]

\* A process_directory call about to branch on its modes.
InitSelect ==
    /\ entry \in {"run", "run_video_extraction"}
    /\ config \in SelectConfigs
    /\ runState = "dispatch"
    /\ runResult = "none"
    /\ scanIdx = 1
    /\ video_files_by_dir = {}
    /\ jobs = << >>
    /\ temp_dirs_created = << >>
    /\ lockHolders = {}
    /\ snapshot = [ t \in Threads |-> << >> ]
    /\ sweepIdx = 0
    /\ fsDirs = {}
    /\ staged_by = [ p \in AllTempDirs |-> {} ]
    /\ removedCount = [ p \in AllTempDirs |-> 0 ]
    /\ pendingReg = {}
    /\ sweepRuns = 0
    /\ startCount = [ p \in AllPaths |-> 0 ]
    /\ jobPc = "select"
    /\ videoCount = 1
    /\ video_index = 0
    /\ staged = {}
    /\ unread = {}
    /\ image_files = << >>
    /\ ffmpeg_runs = << >>
    /\ stats = NewStats
    /\ list_file = "absent"
    /\ processor = NoProcessor
    /\ session = NoSession
    /\ pool_built = FALSE
    /\ video_list = << >>
    /\ parsed = NoParse
    /\ calls = NoCalls
    /\ supervisor = NoSupervisor
    /\ DirectAtRest
    /\ PureAtRest

\* The if / else if / else on creation_mode and extraction_mode is entered.
SelectBranch ==
    /\ jobPc = "select"
    /\ selected' = Append(selected, Strategy(config))
    /\ jobPc' = "branch"
    /\ UNCHANGED << entry, config, lifecycleVars, moreVars, videoCount, video_index, staged, unread,
                    image_files, ffmpeg_runs, direct, compared >>

\* The branch reaches the extraction of its first video.
SelectExtractor ==
    /\ jobPc = "branch"
    /\ selected' = Append(selected, Extractor(config))
    /\ jobPc' = "extracting"
    /\ UNCHANGED << entry, config, lifecycleVars, moreVars, videoCount, video_index, staged, unread,
                    image_files, ffmpeg_runs, direct, compared >>

NextSelect ==
    \/ SelectBranch
    \/ SelectExtractor

SpecSelect == InitSelect /\ [][NextSelect]_vars

\* ==================================================== no run in progress
\* The state of the run functions and of the directory jobs when none of
\* them is executing: the specifications below exercise functions that do
\* not touch it.
NoRun ==
    /\ entry = "none"
    /\ config = [ processing_mode |-> "sequential", extraction_mode |-> "opencv",
                  video_creation_mode |-> None, frame_interval |-> 1, num_threads |-> 1 ]
    /\ runState = "done"
    /\ runResult = "none"
    /\ scanIdx = 1
    /\ video_files_by_dir = {}
    /\ jobs = << >>
    /\ temp_dirs_created = << >>
    /\ lockHolders = {}
    /\ snapshot = [ t \in Threads |-> << >> ]
    /\ sweepIdx = 0
    /\ fsDirs = {}
    /\ staged_by = [ p \in AllTempDirs |-> {} ]
    /\ removedCount = [ p \in AllTempDirs |-> 0 ]
    /\ pendingReg = {}
    /\ sweepRuns = 0
    /\ startCount = [ p \in AllPaths |-> 0 ]
    /\ jobPc = "none"
    /\ videoCount = 0
    /\ video_index = 0
    /\ staged = {}
    /\ unread = {}
    /\ image_files = << >>
    /\ ffmpeg_runs = << >>
    /\ list_file = "absent"
    /\ pool_built = FALSE
    /\ video_list = << >>
    /\ DirectAtRest
    /\ PureAtRest

\* ====================================================== the two parsers
\* Video indices and frame numbers: below, at and above the widths the
\* writers pad to.
ParseVideoIndices == { 0, 7, 12, 999, 1000 }
ParseFrameNumbers == { 0, 1, 123, 999999, 1000000, 9999999, 10000000 }

\* Stems without the two numbers.
BadStems ==
    { << "i", "n", "v", "a", "l", "i", "d", "_", "f", "i", "l", "e", "n", "a", "m", "e" >>,
      StrVideo \o StrUnderFrame,
      << >>,
      StrVideo \o << "1" >> \o StrUnderFrame,
      StrVideo \o StrUnderFrame \o << "1" >>,
      StrFrame \o << "1" >> }

\* What a parser can be called on: the stem of a name either writer
\* produces for (video, frame), or a stem without the numbers.
ParseInputs ==
    { [ NoParse EXCEPT !.kind = "native", !.video = v, !.frame = f,
                       !.stem = FileStem(NativeFrameName(v, f)) ] :
        v \in ParseVideoIndices, f \in ParseFrameNumbers }
    \cup
    { [ NoParse EXCEPT !.kind = "external", !.video = v, !.frame = f,
                       !.stem = FileStem(FfmpegFrameName(v, f)) ] :
        v \in ParseVideoIndices, f \in ParseFrameNumbers }
    \cup
    { [ NoParse EXCEPT !.kind = "other", !.stem = stem ] : stem \in BadStems }

InitParse ==
    /\ NoRun
    /\ processor = NoProcessor
    /\ session = NoSession
    /\ stats = NewStats
    /\ calls = NoCalls
    /\ supervisor = NoSupervisor
    /\ parsed \in ParseInputs

\* parse_frame_filename of extraction/video.rs is called on the stem.
CallParseSplit ==
    /\ "split" \notin parsed.called
    /\ parsed' = [ parsed EXCEPT !.called = @ \cup {"split"},
                                 !.split = parse_frame_filename(parsed.stem) ]
    /\ UNCHANGED << entry, config, lifecycleVars, frameVars, detailVars, list_file,
                    video_list, calls, supervisor, restVars >>

\* VideoProcessor::parse_frame_filename is called on the stem.
CallParseRegex ==
    /\ "regex" \notin parsed.called
    /\ parsed' = [ parsed EXCEPT !.called = @ \cup {"regex"},
                                 !.regex = parse_frame_filename_regex(parsed.stem) ]
    /\ UNCHANGED << entry, config, lifecycleVars, frameVars, detailVars, list_file,
                    video_list, calls, supervisor, restVars >>

NextParse ==
    \/ CallParseSplit
    \/ CallParseRegex

SpecParse == InitParse /\ [][NextParse]_vars

\* ===================================================== ProcessingStats
\* variant: success_rate without the test for an empty total
success_rate_NoZeroTest(self) ==
    << self.files_processed * 100, self.files_processed + self.files_failed >>

\* ProcessingStats::success_rate.  The f64 result is kept as the fraction
\* << numerator, denominator >> it rounds: (files_processed / total) * 100.
success_rate(self) ==
    LET total == self.files_processed + self.files_failed IN
    IF total = 0 THEN << 0, 1 >>
    ELSE << self.files_processed * 100, total >>

\* Sizes and messages the calls are made with.
FileSizes == { 0, 1, 1024 }
ErrorMessages == { "Test error", "other" }

\* let mut stats = ProcessingStats::new();
InitStats ==
    /\ NoRun
    /\ processor = NoProcessor
    /\ session = NoSession
    /\ stats = NewStats
    /\ calls = NoCalls
    /\ parsed = NoParse
    /\ supervisor = NoSupervisor

statsUnchanged == << entry, config, runState, runResult, scanIdx, video_files_by_dir, jobs,
                    temp_dirs_created, lockHolders, snapshot, sweepIdx, fsDirs, staged_by,
                    removedCount, pendingReg, sweepRuns, startCount, frameVars,
                    detailVars, list_file, video_list, parsed, supervisor, restVars >>

\* stats.add_processed_file(file_size)
CallAddProcessedFile ==
    /\ calls.processed + calls.failed < MaxCalls
    /\ \E file_size \in FileSizes :
         /\ stats' = add_processed_file(stats, file_size)
         /\ calls' = [ calls EXCEPT !.processed = @ + 1, !.sizes = @ + file_size,
                                    !.last = "add_processed_file", !.before = stats,
                                    !.rate = None ]
    /\ UNCHANGED statsUnchanged

\* stats.add_failed_file(error)
CallAddFailedFile ==
    /\ calls.processed + calls.failed < MaxCalls
    /\ \E error \in ErrorMessages :
         /\ stats' = add_failed_file(stats, error)
         /\ calls' = [ calls EXCEPT !.failed = @ + 1,
                                    !.last = "add_failed_file", !.before = stats,
                                    !.rate = None ]
    /\ UNCHANGED statsUnchanged

\* stats.success_rate()
CallSuccessRate ==
    /\ calls.rate = None
    /\ calls' = [ calls EXCEPT !.rate = Some(success_rate(stats)) ]
    /\ UNCHANGED << stats, statsUnchanged >>

NextStats ==
    \/ CallAddProcessedFile
    \/ CallAddFailedFile
    \/ CallSuccessRate

SpecStats == InitStats /\ [][NextStats]_vars

\* ================================================ the capture supervisor
\* let max_failures = 3
max_failures == 3

\* thread::sleep(Duration::from_secs(1)) and from_secs(10)
ShortWait == 1
LongWait == 10

\* variant: every failure is followed by the long wait
BackoffWait_AlwaysLong(consecutive_failures) == LongWait

\* if consecutive_failures >= max_failures { sleep 10 s } else { sleep 1 s }
BackoffWait(consecutive_failures) ==
    IF consecutive_failures >= max_failures THEN LongWait ELSE ShortWait

\* The events after which the loop counts a failure.
FailureEvents == { "start_failed", "exited_nonzero", "try_wait_error" }

\* The supervisor after a failure: the count is incremented, the handle is
\* gone, the loop sleeps and goes to its top.  failure_run,
\* observed_running and first_after_running record the history: the
\* failures since the process was last seen running or exited with
\* success, and whether this failure is the first since it was seen running.
AfterFailure(sup, event) ==
    [ sup EXCEPT !.pc = "top",
                 !.ffmpeg_process = "None",
                 !.consecutive_failures = @ + 1,
                 !.slept = BackoffWait(sup.consecutive_failures + 1),
                 !.last_event = event,
                 !.failure_run = @ + 1,
                 !.first_after_running = sup.observed_running,
                 !.observed_running = FALSE,
                 !.children = IF event = "start_failed" THEN @ ELSE @ - 1 ]

\* variant: the loop starts a process without looking at the handle
MayStart_Always(sup) == TRUE

\* if self.ffmpeg_process.is_none()
MayStart(sup) == sup.ffmpeg_process = "None"

\* RTSPCapture::new(..) of either program, process_stream not yet called.
InitSupervisor ==
    /\ NoRun
    /\ processor = NoProcessor
    /\ session = NoSession
    /\ stats = NewStats
    /\ calls = NoCalls
    /\ parsed = NoParse
    /\ \E program \in { "lib", "main" } :
         supervisor = [ NoSupervisor EXCEPT !.program = program, !.pc = "process_stream" ]

supervisorUnchanged == << entry, config, lifecycleVars, frameVars, detailVars, list_file,
                         video_list, parsed, calls, restVars >>

\* process_stream with use_custom_fps = false: start_ffmpeg_recording()
\* with its Err returned by the ?, then process_stream_ffmpeg().
ProcessStream ==
    /\ supervisor.pc = "process_stream"
    /\ \/ supervisor' = [ supervisor EXCEPT !.pc = "top", !.ffmpeg_process = "Some",
                                             !.last_event = "started",
                                             !.children = @ + 1 ]
       \/ supervisor' = [ supervisor EXCEPT !.pc = "returned", !.last_event = "start_failed" ]
    /\ UNCHANGED supervisorUnchanged

\* Top of the loop with no process: start_ffmpeg_recording().
SupervisorStart ==
    /\ supervisor.pc = "top"
    /\ MayStart(supervisor)
    /\ \/ \* Ok: the count is reset and the loop goes on to the poll
          supervisor' = [ supervisor EXCEPT !.pc = "poll", !.ffmpeg_process = "Some",
                                           !.consecutive_failures = 0,
                                           !.last_event = "started",
                                           !.children = @ + 1 ]
       \/ \* Err: count, sleep, continue
          /\ supervisor.failure_run < MaxFailureRun
          /\ supervisor' = [ AfterFailure(supervisor, "start_failed") EXCEPT
                                !.ffmpeg_process = supervisor.ffmpeg_process ]
    /\ UNCHANGED supervisorUnchanged

\* if let Some(process) = &mut self.ffmpeg_process { match process.try_wait() .. }
SupervisorPoll ==
    /\ \/ supervisor.pc = "poll"
       \/ supervisor.pc = "top" /\ supervisor.ffmpeg_process = "Some"
    /\ \/ \* Ok(Some(status)), status.success()
          supervisor' = [ supervisor EXCEPT
                            !.pc = "top", !.ffmpeg_process = "None",
                            !.slept = BackoffWait(supervisor.consecutive_failures),
                            !.last_event = "exited_success",
                            !.failure_run = 0,
                            !.children = @ - 1 ]
       \/ \* Ok(Some(status)), !status.success()
          /\ supervisor.failure_run < MaxFailureRun
          /\ supervisor' = AfterFailure(supervisor, "exited_nonzero")
       \/ \* Ok(None): still running
          supervisor' = [ supervisor EXCEPT
                            !.pc = "top",
                            !.consecutive_failures = 0,
                            !.slept = ShortWait,
                            !.last_event = "running",
                            !.failure_run = 0,
                            !.observed_running = TRUE ]
       \/ \* Err(e)
          /\ supervisor.failure_run < MaxFailureRun
          /\ supervisor' = AfterFailure(supervisor, "try_wait_error")
    /\ UNCHANGED supervisorUnchanged

NextSupervisor ==
    \/ ProcessStream
    \/ SupervisorStart
    \/ SupervisorPoll

SpecSupervisor == InitSupervisor /\ [][NextSupervisor]_vars

\* ============================================================== SpecProcessor
\* Processor::new applied to a ProcessConfig, directly and through the
\* create_video_processor factory.

ProcessingModes == { "SingleFile", "BatchFiles", "DirectoryProcess", "StreamProcess" }

\* What the file system holds at input_path; nothing exists at the empty path.
InputKinds(path) == IF path = "" THEN { "missing" } ELSE { "missing", "file", "dir" }

ProcessConfigs ==
    { [ NoProcessor EXCEPT !.enable_validation = ev, !.input_path = ip,
                           !.output_path = op, !.processing_mode = pm,
                           !.input_is = ik, !.video_config = vc ] :
        ev \in BOOLEAN, ip \in { "", "test_input" }, op \in { "", "test_output" },
        pm \in ProcessingModes, ik \in { "missing", "file", "dir" },
        vc \in { None, Some("video_config") } }

\* The two is_empty tests of Processor::new, made only with validation on.
EmptyPathError_InputOnly(c) ==
    IF c.enable_validation /\ c.input_path = "" THEN "InvalidInput" ELSE "Ok"

EmptyPathError(c) ==
    IF c.enable_validation /\ c.input_path = "" THEN "InvalidInput"
    ELSE IF c.enable_validation /\ c.output_path = "" THEN "InvalidInput"
    ELSE "Ok"

\* Processor::validate_processing_mode
validate_processing_mode(c) ==
    IF ~c.enable_validation THEN "Ok"
    ELSE IF c.processing_mode = "DirectoryProcess"
              /\ c.input_is # "missing" /\ c.input_is # "dir"
         THEN "ConfigurationError"
    ELSE IF c.processing_mode = "SingleFile"
              /\ c.input_is # "missing" /\ c.input_is # "file"
         THEN "ConfigurationError"
    ELSE "Ok"

\* Processor::new: the Result it returns and, for Ok, the Processor it made.
ProcessorNew(c) ==
    LET early == EmptyPathError(c)
        mode  == IF early # "Ok" THEN early ELSE validate_processing_mode(c)
    IN  [ c EXCEPT !.result = mode,
                   !.made = IF mode = "Ok"
                            THEN Some([ processing_mode |-> c.processing_mode,
                                        input_path |-> c.input_path,
                                        output_path |-> c.output_path,
                                        video_config |-> c.video_config,
                                        stats |-> NewStats ])
                            ELSE None ]

\* The ProcessConfig create_video_processor builds.
VideoProcessorConfig ==
    [ NoProcessor EXCEPT !.enable_validation = FALSE, !.input_path = "",
                         !.output_path = "", !.processing_mode = "DirectoryProcess",
                         !.input_is = "missing", !.video_config = None ]

InitProcessor ==
    /\ NoRun
    /\ session = NoSession
    /\ stats = NewStats
    /\ parsed = NoParse
    /\ calls = NoCalls
    /\ supervisor = NoSupervisor
    /\ processor \in { c \in ProcessConfigs : c.input_is \in InputKinds(c.input_path) }

processorUnchanged ==
    UNCHANGED << entry, config, lifecycleVars, frameVars, detailVars, list_file,
                 video_list, parsed, calls, supervisor, session, pool_built >>

CallProcessorNew ==
    /\ processor.via = "none"
    /\ processor' = [ ProcessorNew(processor) EXCEPT !.via = "new" ]
    /\ processorUnchanged

CallCreateVideoProcessor ==
    /\ processor.via = "none"
    /\ processor' = [ ProcessorNew(VideoProcessorConfig)
                         EXCEPT !.via = "create_video_processor" ]
    /\ processorUnchanged

NextProcessor == CallProcessorNew \/ CallCreateVideoProcessor

SpecProcessor == InitProcessor /\ [][NextProcessor]_vars

\* ================================================================ SpecSession
\* Processor::process_from_source in BatchFiles and DirectoryProcess mode,
\* called repeatedly on one Processor.  The directory tree is walked in
\* read_dir order; the recursion of process_directory_recursive is the
\* same walk with the entries of a subdirectory in place of the
\* subdirectory.

\* Entries read in one call, and calls made on one Processor.
MaxEntries == 3
MaxSessions == 2

SessionModes == { "BatchFiles", "DirectoryProcess" }

\* variant: the statistics of the previous session are kept
ResetStats_Keep(old) == old

\* self.stats = ProcessingStats::new()
ResetStats(old) == NewStats

\* format!("Failed to process {:?}: {}", path, e)
FailureMessage == "Failed to process"

\* Processor::new(config) has returned Ok, process_from_source not yet called.
InitSession ==
    /\ NoRun
    /\ processor = NoProcessor
    /\ stats = NewStats
    /\ parsed = NoParse
    /\ calls = NoCalls
    /\ supervisor = NoSupervisor
    /\ \E mode \in SessionModes :
         session = [ NoSession EXCEPT !.pc = "idle", !.mode = mode ]

sessionUnchanged ==
    UNCHANGED << entry, config, lifecycleVars, frameVars, detailVars, list_file,
                 video_list, parsed, calls, supervisor, processor, pool_built >>

\* The call returns: Err through a ?, or Ok(()) after stats.finalize().
SessionReturn(sess, result) == [ sess EXCEPT !.pc = "returned", !.result = result ]

\* process_from_source up to the first entry: the statistics are reset,
\* then validate_input, validate_output_path, ensure_output_directory, the
\* is_dir test of process_batch_files and read_dir, each returning its Err.
SessionBegin ==
    /\ session.pc = "idle"
    /\ LET reset == [ session EXCEPT !.before = session.stats,
                                     !.stats = ResetStats(session.stats),
                                     !.entries = 0, !.seen = 0, !.failed = 0,
                                     !.result = "none",
                                     !.calls = @ + 1 ] IN
        \/ session' = SessionReturn(reset, "Err")
        \/ session' = [ reset EXCEPT !.pc = "loop" ]
    /\ sessionUnchanged

\* The entry is neither a file nor, in directory mode, a directory; in
\* batch mode a subdirectory is passed over as well.
SessionSkipEntry ==
    /\ session.pc = "loop"
    /\ session.entries < MaxEntries
    /\ session' = [ session EXCEPT !.entries = @ + 1 ]
    /\ sessionUnchanged

\* The iterator yields Err (entry?), or in directory mode: a subdirectory
\* cannot be listed, strip_prefix fails, or create_dir_all of the file's
\* output directory fails.  Each is returned with ?.
SessionAbort ==
    /\ session.pc = "loop"
    /\ session.entries < MaxEntries
    /\ \E cause \in { "entry", "read_dir", "create_dir_all" } :
        /\ cause # "entry" => session.mode = "DirectoryProcess"
        /\ session' = SessionReturn([ session EXCEPT
                                        !.entries = @ + 1,
                                        !.seen = IF cause = "create_dir_all"
                                                 THEN @ + 1 ELSE @ ], "Err")
    /\ sessionUnchanged

\* A regular file: process_single_file, whose Ok has counted the file and
\* whose Err is recorded by the match.
SessionFile ==
    /\ session.pc = "loop"
    /\ session.entries < MaxEntries
    /\ \/ \E file_size \in FileSizes :
            session' = [ session EXCEPT
                           !.entries = @ + 1, !.seen = @ + 1,
                           !.stats = add_processed_file(session.stats, file_size) ]
       \/ session' = [ session EXCEPT
                         !.entries = @ + 1, !.seen = @ + 1, !.failed = @ + 1,
                         !.stats = add_failed_file(session.stats, FailureMessage) ]
    /\ sessionUnchanged

\* The iterator is exhausted: stats.finalize() and Ok(()).
SessionEnd ==
    /\ session.pc = "loop"
    /\ session' = SessionReturn(session, "Ok")
    /\ sessionUnchanged

\* The caller calls process_from_source again on the same Processor.
SessionAgain ==
    /\ session.pc = "returned"
    /\ session.calls < MaxSessions
    /\ session' = [ session EXCEPT !.pc = "idle" ]
    /\ sessionUnchanged

NextSession ==
    \/ SessionBegin
    \/ SessionSkipEntry
    \/ SessionAbort
    \/ SessionFile
    \/ SessionEnd
    \/ SessionAgain

SpecSession == InitSession /\ [][NextSession]_vars

\* ================================================================ claims
RunReturnedOk == runState = "done" /\ runResult = "Ok"
Dispatched == \E d \in AllPaths : startCount[d] > 0

\* C1: no staging directory is deleted twice: a path is the target of at
\* most one remove_dir_all between its creation and the end of the run,
\* whether by the local removal or by the sweep.
C1_NoDoubleRemoval == \A p \in AllTempDirs : removedCount[p] <= 1

\* C2, as claimed: after a full run the registry collection is empty.
C2_RegistryEmptyAfterRun == RunReturnedOk => temp_dirs_created = << >>

\* C2, amended: after a full run the collection still holds exactly the
\* paths registered and not removed locally, and the sweep has called
\* remove_dir_all on each of them.
C2_RegisteredAllSwept ==
    RunReturnedOk =>
        /\ Range(temp_dirs_created) = pendingReg
        /\ \A p \in Range(temp_dirs_created) : removedCount[p] >= 1

C2_Witness == RunReturnedOk /\ Len(temp_dirs_created) >= 2

\* C3: a DirectExternal job that has returned, however it ended after
\* creating its staging directory, has removed that directory from the
\* registry and called remove_dir_all on it.
C3_DirectExternalCleansUp ==
    \A d \in DOMAIN jobs :
        ( /\ Strategy(config) = "DirectExternal"
          /\ jobs[d].pc = "done"
          /\ jobs[d].temp # NoPath )
        => ( /\ jobs[d].temp \notin Range(temp_dirs_created)
             /\ removedCount[jobs[d].temp] >= 1 )

\* C4: once the run is past the dispatch, every discovered directory's job
\* has run to its end, also when some job ended in an error.
C4_FailureIsolation ==
    \A f \in DOMAIN jobs :
        ( jobs[f].result = "Err" /\ runState \in {"drained", "sweep", "done"} )
        => \A d \in video_files_by_dir : d \in DOMAIN jobs /\ jobs[d].pc = "done"

\* a directory is being processed after another one has failed, in the
\* sequential loop
C4_Witness ==
    /\ config.processing_mode = "sequential"
    /\ \E f, d \in DOMAIN jobs : jobs[f].result = "Err" /\ Running(d)

C6_RunSucceeds == (runState = "done" /\ Dispatched) => runResult = "Ok"

\* the run returned Ok although a job failed, the sweep could not remove a
\* registered directory and a job could not remove its own
C6_Witness ==
    /\ RunReturnedOk
    /\ \E f \in DOMAIN jobs : jobs[f].result = "Err"
    /\ \E p \in Range(temp_dirs_created) : p \in fsDirs
    /\ \E d \in DOMAIN jobs :
         /\ jobs[d].result = "Ok"
         /\ jobs[d].temp \in fsDirs
         /\ jobs[d].temp \notin Range(temp_dirs_created)

C8_DistinctOutputPaths ==
    \A d1, d2 \in DOMAIN jobs :
        (d1 # d2 /\ Running(d1) /\ Running(d2))
        => output_video_path(d1) # output_video_path(d2)

\* C9: at most one thread is inside a critical section of the list, and
\* every path registered and not removed locally is in the list.
C9_NoLostRegistration ==
    /\ Cardinality(lockHolders) <= 1
    /\ pendingReg \subseteq Range(temp_dirs_created)

\* the sweep starts on a list that two concurrent workers appended to
C9_Witness ==
    /\ runState = "sweep"
    /\ config.processing_mode = "parallel"
    /\ Cardinality(Range(temp_dirs_created)) >= 2
    /\ \E d1, d2 \in DOMAIN jobs :
         /\ jobs[d1].thread # jobs[d2].thread
         /\ jobs[d1].temp \in Range(temp_dirs_created)
         /\ jobs[d2].temp \in Range(temp_dirs_created)

\* C10: the staged files handed to assembly are in (video index, frame
\* index) order of the frames they hold: a file of a lower-indexed video
\* precedes every file of a higher-indexed one, and within one video the
\* source frame index is strictly increasing.  Both comparators.
C10_StagedFramesOrdered ==
    jobPc = "assembled" =>
        /\ { image_files[i] : i \in DOMAIN image_files } = staged
        /\ \A i, k \in DOMAIN image_files :
            i < k =>
              \/ image_files[i].video < image_files[k].video
              \/ /\ image_files[i].video = image_files[k].video
                 /\ image_files[i].frame < image_files[k].frame

\* two videos with two frames each, assembled
C10_Witness ==
    /\ jobPc = "assembled"
    /\ \E a, b, c, d \in staged :
         /\ a.video = 0 /\ b.video = 0 /\ a.frame < b.frame
         /\ c.video = 1 /\ d.video = 1 /\ c.frame < d.frame

\* The order the specification gives two names from their parses.
C11_SpecifiedOrder(pa, pb) ==
    IF pa # None /\ pb # None
    THEN IF pa[1][1] # pb[1][1] THEN CmpNat(pa[1][1], pb[1][1])
         ELSE CmpNat(pa[1][2], pb[1][2])
    ELSE IF pa # None THEN "Less"
    ELSE IF pb # None THEN "Greater"
    ELSE "Equal"

\* C11: at every place frames are ordered, two names that both parse
\* compare by (N, M) ascending, an unparsable name sorts after a parsed
\* one, and two unparsable names compare equal.
C11_ComparatorRule ==
    LET sa == FileStem(compared.name_a)
        sb == FileStem(compared.name_b) IN
    /\ compared.concat # "none" =>
         compared.concat = C11_SpecifiedOrder(parse_frame_filename(sa), parse_frame_filename(sb))
    /\ compared.readback # "none" =>
         compared.readback = C11_SpecifiedOrder(parse_frame_filename(sa), parse_frame_filename(sb))
    /\ compared.processor # "none" =>
         compared.processor =
            C11_SpecifiedOrder(parse_frame_filename_regex(sa), parse_frame_filename_regex(sb))

\* the same rule at the two concat-list sorts only
C11_ConcatSitesFollowRule ==
    LET sa == FileStem(compared.name_a)
        sb == FileStem(compared.name_b) IN
    /\ compared.concat # "none" =>
         compared.concat = C11_SpecifiedOrder(parse_frame_filename(sa), parse_frame_filename(sb))
    /\ compared.processor # "none" =>
         compared.processor =
            C11_SpecifiedOrder(parse_frame_filename_regex(sa), parse_frame_filename_regex(sb))

\* ceil(N / k) for k >= 1
C12_Ceil(n, k) == (n + k - 1) \div k

\* C12: with N total frames and interval k >= 1 the indices attempted are
\* 0, k, 2k, ... below N, in that order; the number of frames accepted is
\* ceil(N / k) when the loop runs to its end with no failed seek, empty
\* frame or failed read, and never more than that.
C12_NativeSampleCount ==
    direct.sampling # "none" =>
        LET n == direct.total_frames
            k == config.frame_interval
            all == SampledIndices(n, k) IN
        /\ k >= 1
        /\ Cardinality(all) = C12_Ceil(n, k)
        /\ direct.attempted \subseteq all
        /\ \A a \in direct.attempted : \A b \in all : b < a => b \in direct.attempted
        /\ direct.accepted <= Cardinality(direct.attempted)
        /\ direct.accepted <= C12_Ceil(n, k)
        /\ direct.sampling = "exhausted" => direct.attempted = all
        /\ (direct.sampling = "exhausted" /\ direct.clean) => direct.accepted = C12_Ceil(n, k)

\* a video whose frame count is not a multiple of the interval, sampled to
\* its end without a failure
C12_Witness ==
    /\ direct.sampling = "exhausted"
    /\ direct.clean
    /\ config.frame_interval = 2
    /\ direct.total_frames % 2 = 1
    /\ direct.accepted = (direct.total_frames + 1) \div 2

\* C13: in a DirectNative job a video that cannot be opened never ends
\* the job, and when the job has run to its end every frame read from the
\* other videos at the writer's size is in the output file, which exists.
C13_UnopenableVideosSkipped ==
    /\ jobPc \in {"d_failed", "d_write_failed", "d_panicked"} =>
          video_index \notin direct.unopenable
    /\ \A v \in direct.unopenable : v < video_index
    /\ jobPc = "d_done" =>
          /\ direct.matched \subseteq Range(direct.written)
          /\ direct.written # << >> => direct.file_exists

\* the first video cannot be opened, the job ends normally with frames of
\* the second video in the output
C13_Witness ==
    /\ jobPc = "d_done"
    /\ 0 \in direct.unopenable
    /\ \E i \in DOMAIN direct.written : direct.written[i].video = 1
    /\ direct.file_exists

\* C18: the writer is opened at most once, at the size of the first video
\* reporting a positive width and height; every frame written has that
\* size, and the frames written are exactly the frames read non-empty at
\* that size (a frame of another size is dropped).
C18_WriterResolutionFixed ==
    /\ direct.writer_opens <= 1
    /\ direct.output_writer # "None" =>
          direct.first_size # None /\ direct.output_frame_size = direct.first_size
    /\ direct.output_writer = "None" => direct.written = << >>
    /\ \A i \in DOMAIN direct.written : Some(direct.written[i].size) = direct.output_frame_size
    /\ Range(direct.written) \subseteq direct.matched
    /\ jobPc # "d_write_failed" => Len(direct.written) = Cardinality(direct.matched)

\* the job ended normally with frames written and, in its last video, a
\* frame of another size dropped
C18_Witness ==
    /\ jobPc = "d_done"
    /\ direct.written # << >>
    /\ direct.videos_processed_count = videoCount
    /\ direct.accepted >
         Cardinality({ i \in DOMAIN direct.written : direct.written[i].video = videoCount - 1 })

\* C19: when a DirectNative job has ended and its writer was never opened,
\* or was opened and never received a frame, the output file does not exist.
C19_NoPartialOutput ==
    (/\ jobPc \in {"d_done", "d_failed", "d_write_failed"}
     /\ (direct.writer_opens = 0 \/ direct.written = << >>))
    => ~direct.file_exists

\* the same, for jobs that end normally
C19_NoEmptyOutputAfterNormalEnd ==
    (jobPc = "d_done" /\ direct.written = << >>) => ~direct.file_exists

\* C14: when NativeSample feeds StagedConcat, a source video that cannot be
\* opened is skipped: the job does not end at it, extraction goes on with
\* the remaining videos and assembly still runs.
C14_UnopenableVideoSkippedWhenStaging ==
    (Strategy(config) = "StagedConcat" /\ ~use_ffmpeg_extraction(config))
        => jobPc # "failed_open"

\* C15: ExternalSample with interval 0 fails with the validation error at
\* the first video and no ffmpeg process is spawned for any video, in
\* DirectExternal and in StagedConcat jobs.
C15_ZeroIntervalNoSubprocess ==
    (use_ffmpeg_extraction(config) /\ config.frame_interval = 0) =>
        /\ ffmpeg_runs = << >>
        /\ staged = {}
        /\ video_index = 0
        /\ jobPc \in {"extract", "failed_interval", "failed"}

\* a job with two videos has failed on the interval
C15_Witness ==
    /\ use_ffmpeg_extraction(config) /\ config.frame_interval = 0
    /\ jobPc = "failed_interval"
    /\ videoCount = MaxVideos
    /\ ffmpeg_runs = << >>

\* C17: once ffmpeg has exited non-zero for a video of the directory, the
\* job has ended in an error at that video: no ffmpeg process was spawned
\* after the failing one, no frame of a later video is staged, and the
\* staging directory is never listed, sorted or assembled.
C17_ExternalAllOrNothing ==
    (\E i \in DOMAIN ffmpeg_runs : ffmpeg_runs[i] = "fail") =>
        /\ jobPc = "failed_exit"
        /\ \A i \in DOMAIN ffmpeg_runs : ffmpeg_runs[i] = "fail" <=> i = Len(ffmpeg_runs)
        /\ Len(ffmpeg_runs) = video_index + 1
        /\ \A f \in staged : f.video <= video_index
        /\ unread = {}
        /\ image_files = << >>

\* ffmpeg failed on the first of two videos, after writing a frame
C17_Witness ==
    /\ jobPc = "failed_exit"
    /\ ffmpeg_runs = << "fail" >>
    /\ videoCount = MaxVideos
    /\ staged # {}

\* C16: with external extraction and interval 0 the run is aborted before
\* scheduling: no directory job is started, no staging directory is
\* created, and the run reports an error.
C16_InvalidIntervalAbortsBeforeScheduling ==
    (use_ffmpeg_extraction(config) /\ config.frame_interval = 0) =>
        /\ \A p \in AllPaths : startCount[p] = 0
        /\ fsDirs = {}
        /\ runState = "done" => runResult = "Err"

\* the same, for the run's result only
C16_InvalidIntervalReported ==
    (use_ffmpeg_extraction(config) /\ config.frame_interval = 0 /\ runState = "done"
     /\ \E p \in AllPaths : startCount[p] > 0)
        => runResult = "Err"

\* C20: ("opencv", "direct") selects DirectNative, ("ffmpeg", "direct")
\* selects DirectExternal, every other pair of values, absent and unknown
\* ones included, selects StagedConcat, which extracts with ffmpeg exactly
\* when the extraction mode is "ffmpeg"; one branch is entered per job.
C20_StrategySelection ==
    selected # << >> =>
        LET e == config.extraction_mode
            cm == config.video_creation_mode
            expected == IF e = "opencv" /\ cm = Some("direct") THEN "DirectNative"
                        ELSE IF e = "ffmpeg" /\ cm = Some("direct") THEN "DirectExternal"
                        ELSE "StagedConcat"
        IN
        /\ selected[1] = expected
        /\ Cardinality({ i \in DOMAIN selected :
                           selected[i] \in {"DirectNative", "DirectExternal", "StagedConcat"} }) = 1
        /\ (Len(selected) > 1 /\ expected = "StagedConcat") =>
              selected[2] = IF e = "ffmpeg" THEN "ffmpeg" ELSE "opencv"

\* an absent creation mode with an unknown extraction mode
C20_Witness ==
    /\ config.video_creation_mode = None
    /\ config.extraction_mode = "ffmpeg_interval"
    /\ selected = << "StagedConcat", "opencv" >>

\* C21: when the assembly of a StagedConcat job has returned, the list file
\* ffmpeg_list.txt is gone from the staging directory, whether ffmpeg
\* succeeded, exited non-zero or could not be launched.
C21_ListFileGoneWhenAssemblyReturns ==
    jobPc \in { "concat_success", "concat_exit_nonzero", "concat_launch_failed" }
    => list_file = "absent"

\* C21, the part the code keeps: after an ffmpeg run that was launched, the
\* list file is gone.
C21_ListFileGoneAfterLaunchedRun ==
    jobPc \in { "concat_success", "concat_exit_nonzero" } => list_file = "absent"

\* The staging directories that StagedConcat jobs have created.
StagedConcatDirs ==
    { jobs[j].temp : j \in { d \in DOMAIN jobs :
                                Strategy(config) = "StagedConcat" /\ jobs[d].temp # NoPath } }

\* C22: the staging directory of a StagedConcat job is not removed by the
\* job, exists until the final sweep, and when the run has ended the sweep
\* has removed it, whether the job succeeded or failed.
C22_StagedConcatDirSweptAtEnd ==
    /\ runState \in { "dispatch", "drained" } =>
         \A dir \in StagedConcatDirs : dir \in fsDirs /\ removedCount[dir] = 0
    /\ runState \in { "done", "aborted" } =>
         \A dir \in StagedConcatDirs : removedCount[dir] >= 1

\* C22, for the runs that return: the directory stays until the sweep, is
\* registered once the job is past its push, and the sweep has tried to
\* remove it when the run returns.
C22_SweptWhenRunReturns ==
    /\ runState \in { "dispatch", "drained" } =>
         \A dir \in StagedConcatDirs : dir \in fsDirs /\ removedCount[dir] = 0
    /\ \A j \in DOMAIN jobs :
         ( /\ Strategy(config) = "StagedConcat"
           /\ jobs[j].pc \in { "extract", "assemble", "done" }
           /\ jobs[j].temp # NoPath
           /\ runState # "done" )
         => jobs[j].temp \in Range(temp_dirs_created)
    /\ runState = "done" =>
         \A dir \in StagedConcatDirs : removedCount[dir] >= 1

\* C23: the scan never ends the run: every iteration of the loop over
\* input_directories, whatever the configured path is, leaves the run in
\* the scan loop with the next path to look at.
C23_ScanNeverAbortsRun ==
    [][ ScanDirectory => runState' = "scan" /\ scanIdx' = scanIdx + 1 ]_vars

\* C23, what the abort leaves behind: a run that returns Err returned it
\* from the scan or from the pool construction, before any job was started.
C23_AbortOnlyBeforeJobs ==
    runResult = "Err" => jobs = << >> /\ temp_dirs_created = << >>

\* The directory jobs that returned an Err.
FailedJobs == { j \in DOMAIN jobs : jobs[j].result = "Err" }

\* C24: when run_video_extraction has returned, every directory job that
\* failed is in the stats, in sequential and in parallel mode: files_failed
\* counts the failed jobs and errors holds one message per failed job that
\* names its directory.
C24_FailedJobsRecorded ==
    ( entry = "run_video_extraction" /\ runState = "done" /\ runResult = "Ok" ) =>
        /\ stats.files_failed = Cardinality(FailedJobs)
        /\ Len(stats.errors) = Cardinality(FailedJobs)
        /\ \A j \in FailedJobs : \E i \in DOMAIN stats.errors : stats.errors[i][2] = j

\* C24, sequential mode: the loop records each failed job.
C24_SequentialFailuresRecorded ==
    ( entry = "run_video_extraction" /\ config.processing_mode = "sequential" ) =>
        /\ stats.files_failed = Cardinality(FailedJobs)
        /\ Len(stats.errors) = Cardinality(FailedJobs)
        /\ \A j \in FailedJobs : \E i \in DOMAIN stats.errors : stats.errors[i][2] = j

\* C25: in a DirectNative job the frames written to the output are in
\* source-then-frame order: the source files follow the lexicographic
\* order of their paths, video_index is the position of the source in that
\* order, and the frame indices of one source strictly increase.
C25_SourceThenFrameOrder ==
    LET sorted == sorted_video_list IN
    /\ \A k \in 1..(Len(sorted) - 1) : CmpPath(sorted[k], sorted[k + 1]) = "Less"
    /\ Range(sorted) = Range(video_list)
    /\ \A i \in DOMAIN direct.written :
         LET a == direct.written[i] IN
         /\ a.source = sorted[a.video + 1]
         /\ i > 1 =>
              LET b == direct.written[i - 1] IN
              \/ b.video < a.video
              \/ b.video = a.video /\ b.frame < a.frame

\* A job over a list the scan returned out of order has written frames of
\* two sources.
C25_Witness ==
    /\ video_list # sorted_video_list
    /\ \E i, k \in DOMAIN direct.written :
         /\ direct.written[i].source # direct.written[k].source
         /\ direct.written[i].frame > 0

\* C26: in the staging directory of one job, every frame file's name gives
\* a (video index, frame index) pair and no two files give the same pair
\* (there are as many pairs as file names), with the native and with the
\* external extractor.
C26_StagedPairsUnique ==
    LET names == { f.name : f \in staged }
        pairs == { parse_frame_filename(FileStem(name)) : name \in names }
    IN
    /\ None \notin pairs
    /\ Cardinality(pairs) = Cardinality(names)

\* Two videos of the job have each staged a frame with the same number.
C26_Witness ==
    \E f, g \in staged :
        /\ f.video # g.video
        /\ parse_frame_filename(FileStem(f.name))[1][2]
             = parse_frame_filename(FileStem(g.name))[1][2]

\* C27: each parser, called on the stem of the name the native writer or
\* the external writer produces for video v and frame f, returns
\* Some((v, f)); called on a stem without the two numbers it returns None.
C27_ParseInvertsFormat ==
    /\ "split" \in parsed.called =>
         parsed.split = IF parsed.kind = "other" THEN None
                        ELSE Some(<< parsed.video, parsed.frame >>)
    /\ "regex" \in parsed.called =>
         parsed.regex = IF parsed.kind = "other" THEN None
                        ELSE Some(<< parsed.video, parsed.frame >>)

\* Both parsers have been called on the stem video1000_frame1000000.
C27_Witness ==
    /\ parsed.called = { "split", "regex" }
    /\ parsed.kind = "external"
    /\ parsed.video = 1000
    /\ parsed.frame = 1000000
    /\ parsed.split = parsed.regex

\* C28: a failure (start failed, exit with non-zero status, status check
\* error) that is at least the third of a run of failures, with the
\* process never seen running in between, is followed by the long wait.
C28_EscalatesAfterThreeFailures ==
    ( /\ supervisor.last_event \in FailureEvents
      /\ supervisor.pc = "top"
      /\ supervisor.failure_run >= max_failures )
    => supervisor.slept = LongWait

\* C28, the direction the code keeps: the long wait is only taken after a
\* run of at least three failures.
C28_LongWaitOnlyAfterThreeFailures ==
    supervisor.slept = LongWait => supervisor.failure_run >= max_failures

\* C29: a poll that finds the process still running leaves the count at
\* zero and sleeps the short wait, and the first failure after the process
\* was seen running is followed by the short wait.
C29_ShortWaitAfterSustainedRun ==
    /\ supervisor.last_event = "running" =>
         supervisor.consecutive_failures = 0 /\ supervisor.slept = ShortWait
    /\ ( /\ supervisor.last_event \in FailureEvents
         /\ supervisor.pc = "top"
         /\ supervisor.first_after_running )
       => supervisor.slept = ShortWait /\ supervisor.consecutive_failures = 1

\* The process was seen running, and a later poll found it exited with a
\* non-zero status.
C29_Witness ==
    /\ supervisor.last_event = "exited_nonzero"
    /\ supervisor.first_after_running
    /\ supervisor.failure_run = 1
    /\ supervisor.pc = "top"

\* C30: after any sequence of add_processed_file and add_failed_file calls
\* on a new ProcessingStats, files_processed is the number of
\* add_processed_file calls and total_size_processed the sum of their
\* sizes, files_failed is the number of add_failed_file calls and the
\* length of errors; a call leaves the counters of the other call as they
\* were; success_rate is 0 when nothing was counted and otherwise
\* 100 * files_processed / (files_processed + files_failed).
C30_StatsCounters ==
    /\ stats.files_processed = calls.processed
    /\ stats.total_size_processed = calls.sizes
    /\ stats.files_failed = calls.failed
    /\ stats.files_failed = Len(stats.errors)
    /\ calls.last = "add_processed_file" =>
         /\ stats.files_failed = calls.before.files_failed
         /\ stats.errors = calls.before.errors
    /\ calls.last = "add_failed_file" =>
         /\ stats.files_processed = calls.before.files_processed
         /\ stats.total_size_processed = calls.before.total_size_processed
    /\ calls.rate # None =>
         LET rate == calls.rate[1] IN
         /\ rate[2] # 0
         /\ IF calls.processed + calls.failed = 0
            THEN rate[1] = 0
            ELSE rate[1] * (calls.processed + calls.failed) = 100 * calls.processed * rate[2]

\* The sequence of the unit test: one file of 1024 bytes processed, one
\* failed, and a success rate of 50.
C30_Witness ==
    /\ calls.processed = 1
    /\ calls.failed = 1
    /\ stats.total_size_processed = 1024
    /\ calls.rate = Some(<< 100, 2 >>)


\* C31: with validation enabled Processor::new returns an error and makes no
\* processor whenever the input path or the output path is empty; with
\* validation disabled, as in create_video_processor, construction succeeds
\* with both paths empty and yields DirectoryProcess mode, no video
\* configuration and zeroed statistics.
C31_EmptyPathsRejected ==
    /\ (processor.via = "new" /\ processor.enable_validation
          /\ (processor.input_path = "" \/ processor.output_path = ""))
       => (processor.result = "InvalidInput" /\ processor.made = None)
    /\ processor.via = "create_video_processor"
       => /\ processor.result = "Ok"
          /\ processor.made # None
          /\ processor.made[1].input_path = "" /\ processor.made[1].output_path = ""
          /\ processor.made[1].processing_mode = "DirectoryProcess"
          /\ processor.made[1].video_config = None
          /\ processor.made[1].stats = NewStats

C31_Witness ==
    /\ processor.via = "new"
    /\ processor.enable_validation
    /\ processor.input_path # "" /\ processor.output_path = ""
    /\ processor.result = "InvalidInput"


\* C32: run_video_extraction and processing::run go through the same
\* staging-directory events with the same directory names: a job's staging
\* directory has the name either implementation gives it, and a
\* DirectExternal job that reached the end of its branch has taken the
\* directory out of the registry and removed it locally.
C32_SameStagingLifecycle ==
    \A d \in DOMAIN jobs :
        jobs[d].temp # NoPath =>
            /\ \A e \in { "run", "run_video_extraction" } :
                   jobs[d].temp = temp_dir_name(e, Strategy(config), d, jobs[d].thread)
            /\ ( /\ Strategy(config) = "DirectExternal"
                 /\ jobs[d].pc = "done"
                 /\ jobs[d].result = "Ok" )
               => ( /\ jobs[d].temp \notin Range(temp_dirs_created)
                    /\ removedCount[jobs[d].temp] >= 1 )

\* what the two implementations share: every staging directory is
\* registered before extraction and a run that returns has swept every
\* registered directory
C32_SharedRegisterAndSweep ==
    /\ \A d \in DOMAIN jobs :
          jobs[d].pc \in { "extract", "assemble" } => jobs[d].temp \in Range(temp_dirs_created)
    /\ RunReturnedOk => \A p \in Range(temp_dirs_created) : removedCount[p] >= 1

\* C33: the two create_video_from_temp_frames implementations parse every
\* staged .jpg file name to the same result and put any two names in the
\* same order in the concat list.
C33_ParsersAgree ==
    ( compared.concat # "none" /\ compared.processor # "none" )
    => /\ \A n \in { compared.name_a, compared.name_b } :
             parse_frame_filename(FileStem(n)) = parse_frame_filename_regex(FileStem(n))
       /\ compared.concat = compared.processor

\* on the names either writer produces the two agree
C33_AgreeOnWrittenNames ==
    LET written == { NativeFrameName(0, 1), NativeFrameName(1, 0),
                     FfmpegFrameName(0, 2), FfmpegFrameName(1, 1) } IN
    ( /\ compared.concat # "none" /\ compared.processor # "none"
      /\ compared.name_a \in written /\ compared.name_b \in written )
    => compared.concat = compared.processor

\* The Ordering with its sides exchanged.
C35_Reverse(o) == IF o = "Less" THEN "Greater" ELSE IF o = "Greater" THEN "Less" ELSE o

\* C35: the read-back comparator of DirectExternal is a consistent
\* ordering: exchanging the two names reverses the result, and a name
\* ordered before a second one that is ordered before a third is ordered
\* before the third.
C35_ConsistentOrdering ==
    compared.readback # "none" =>
        /\ CompareDirect(compared.name_b, compared.name_a) = C35_Reverse(compared.readback)
        /\ \A c \in CmpNames :
              ( compared.readback = "Less" /\ CompareDirect(compared.name_b, c) = "Less" )
              => CompareDirect(compared.name_a, c) = "Less"

\* the half that holds: exchanging the names reverses the result
C35_Antisymmetric ==
    compared.readback # "none" =>
        CompareDirect(compared.name_b, compared.name_a) = C35_Reverse(compared.readback)


\* C34: when a StagedConcat or DirectExternal job reads its staging
\* directory, the directory holds no frame written by another directory
\* job, concurrent or earlier in the same run.
C34_NoForeignFrames ==
    \A j \in DOMAIN jobs :
        jobs[j].pc = "assemble" => staged_by[jobs[j].temp] \subseteq {j}

\* two directories with different final segments never share a staging
\* directory while either job is at work
C34_DistinctTagsDistinctDirs ==
    \A j, k \in DOMAIN jobs :
        ( /\ j # k /\ Running(j) /\ Running(k)
          /\ get_directory_tag(j) # get_directory_tag(k)
          /\ jobs[j].temp # NoPath )
        => jobs[j].temp # jobs[k].temp

\* C36: with native extraction and interval 0 a directory job ends as an
\* error of that directory: no job ends in a panic and the run is not
\* unwound before its final sweep.
C36_IntervalZeroIsJobError ==
    ( Extractor(config) = "opencv" /\ config.frame_interval = 0 )
    => /\ \A d \in DOMAIN jobs : jobs[d].result # "Panic"
       /\ runState # "aborted"


\* C38: the supervisor holds at most one child process per stream: the
\* number of children started and not yet released is at most one and is
\* one exactly when the handle is held, and after every observed exit or
\* status-check error the handle is None.
C38_AtMostOneChild ==
    /\ supervisor.children <= 1
    /\ supervisor.children = 1 <=> supervisor.ffmpeg_process = "Some"
    /\ supervisor.last_event \in { "exited_success", "exited_nonzero", "try_wait_error" }
       => supervisor.ffmpeg_process = "None"

\* a process was started by the loop after an earlier one had exited with
\* a non-zero status
C38_Witness ==
    /\ supervisor.pc = "poll"
    /\ supervisor.last_event = "started"
    /\ supervisor.children = 1
    /\ supervisor.failure_run >= 1

\* C39: the supervisor never gives up: it never returns, and after every
\* start failure, the first one made by process_stream included, it is
\* at the top of its loop without a handle, where the next start is made.
C39_NeverGivesUp ==
    /\ supervisor.pc # "returned"
    /\ supervisor.last_event = "start_failed"
       => ( supervisor.pc = "top" /\ supervisor.ffmpeg_process = "None" )

\* once inside the loop of process_stream_ffmpeg the supervisor stays in it
C39_LoopNeverReturns ==
    [][ supervisor.pc \in { "top", "poll" } => supervisor'.pc \in { "top", "poll" } ]_vars


\* C37: every invocation of run_video_extraction in parallel mode, a
\* second or later one included, that has scanned all its configured
\* paths dispatches a job for every discovered directory and performs its
\* final sweep.
C37_RepeatedInvocationDispatches ==
    ( /\ entry = "run_video_extraction"
      /\ config.processing_mode # "sequential"
      /\ pool_built
      /\ scanIdx > MaxDirs
      /\ runState = "done" )
    => /\ \A d \in video_files_by_dir : startCount[d] >= 1
       /\ sweepRuns = 1

\* a parallel invocation in a process whose pool exists never gets from
\* the scan to the dispatch
C37_LaterParallelRunEndsAtPool ==
    [][ ( /\ runState = "scan" /\ runState' # "scan"
          /\ pool_built /\ config.processing_mode # "sequential" )
        => ( runState' = "done" /\ runResult' = "Err" /\ jobs' = << >> ) ]_vars

\* in sequential mode repeated invocations dispatch and sweep
C37_SequentialRepeats ==
    ( /\ config.processing_mode = "sequential"
      /\ scanIdx > MaxDirs
      /\ runState = "done" )
    => /\ \A d \in video_files_by_dir : startCount[d] >= 1
       /\ sweepRuns = 1


\* C40: in batch and directory mode a file whose processing fails does not
\* end the session: when process_from_source has returned Ok,
\* files_processed + files_failed is the number of regular files
\* encountered, every failed file has exactly one entry in errors, and the
\* counts are those of this call only, the statistics having been reset
\* when it began.
C40_SessionAccounting ==
    /\ ( session.pc = "returned" /\ session.result = "Ok" )
       => /\ session.stats.files_processed + session.stats.files_failed = session.seen
          /\ session.stats.files_failed = session.failed
          /\ Len(session.stats.errors) = session.failed
    /\ ( session.pc = "loop" /\ session.entries = 0 ) => session.stats = NewStats
    /\ ( session.pc = "loop" /\ session.failed > 0 ) => session.result = "none"

\* a second session on a Processor whose first session had counted a
\* failure returns Ok with one file processed and one failed
C40_Witness ==
    /\ session.pc = "returned" /\ session.result = "Ok"
    /\ session.calls = 2
    /\ session.before.files_failed >= 1
    /\ session.stats.files_processed = 1
    /\ session.stats.files_failed = 1

=============================================================================
